---- MODULE Spec2Model ----
(***************************************************************************)
(* Portfolio-manager service: the regeneration coordinator of              *)
(* fastapi_app.py (maybe_generate, /process, the persisted-report reads),  *)
(* the report builder's save path of portfolio_manager.py, and the         *)
(* standalone worker loop of generate_report.py.                           *)
(*                                                                         *)
(* Time is counted in minutes.  `now` is the UTC wall clock                *)
(* (datetime.utcnow()); datetime.now() is now + env.tz, the process's      *)
(* local-time offset; the market clock (America/New_York) reads            *)
(* env.minute0 + now on weekday env.weekday.                               *)
(*                                                                         *)
(* A caller's task is cancelled, if at all, while it awaits the executor    *)
(* future of its build.                                                    *)
(*                                                                         *)
(* One action is one run of a coroutine between two awaits on the asyncio  *)
(* event loop (such a run is atomic: the loop is single-threaded), or one  *)
(* step of the executor thread that runs generate_full_report.             *)
(***************************************************************************)
EXTENDS Integers, Sequences, FiniteSets, TLC

\* ------------------------------------------------------------------ bounds
MaxTime == 30
TickMinutes == 15
\* build threads left running by a cancelled caller, at any one time
MaxOrphans == 1

\* --------------------------------------------------------- program constants
REFRESH_INTERVAL == 15
MARKET_OPEN_MINUTE == 570
MARKET_CLOSE_MINUTE == 960
NoTime == -9999

DEFAULT_PERIOD == "6mo"
Periods == {"6mo", "1y"}
NoPeriod == "None"

\* tasks that call maybe_generate (the startup run, the scheduled job) and
\* HTTP requests to POST /process
Triggers == {"a", "b"}
Clients == {"c"}
Callers == Triggers \cup Clients

\* the process's UTC offset in minutes (TZ of the host)
TzOffsets == {-60, 0}

\* New-York weekday and minute of the day at now = 0
Friday1540 == [weekday |-> 4, minute0 |-> 940]    \* closes at 16:00
Monday0920 == [weekday |-> 0, minute0 |-> 560]    \* opens at 09:30
Saturday1000 == [weekday |-> 5, minute0 |-> 600]
ServiceInstants == { Friday1540 }
WorkerInstants == { Friday1540, Monday0920, Saturday1000 }

\* request.symbols of POST /process: empty (the configured assets are used)
\* or a list with a crypto pair
PORTFOLIO_CONFIG_assets == <<"AAPL", "TSLA">>
SymbolInputs == { <<>>, <<"AAPL", "BTC-USD">> }
endswith_USD(symbol) == symbol \in {"BTC-USD"}

NoReport == [generated_at |-> NoTime, period |-> NoPeriod]

VARIABLES
    now,                      \* datetime.utcnow()
    env,                      \* [program, tz, weekday, minute0], fixed at start
    last_generation_state,    \* [timestamp, period, in_progress]
    generation_lock,          \* asyncio.Lock: [locked, waiters, woken]
    existing_portfolio_data,  \* portfolio_manager's persisted report
    calls,                    \* per caller: the call in flight or its result
    jobs,                     \* per caller: its generate_full_report run
    worker,                   \* generate_report.run_worker
    returned,                 \* the return the last step took, if it took one
    asked,                    \* the last evaluation of _should_regenerate alone
    overview,                 \* PortfolioCalculator.get_market_overview, one call
    movers,                   \* DataFetcher's market movers cache
    fetcher,                  \* DataFetcher's quote cache and weekly cache
    applied,                  \* the last application of a pure function alone
    built                     \* the last successful build, no build started since

vars == <<now, env, last_generation_state, generation_lock,
          existing_portfolio_data, calls, jobs, worker, returned, asked,
                   overview, movers, fetcher, applied, built>>

\* ------------------------------------------------------------ pure helpers

utcnow == now
localnow == now + env.tz

\* fastapi_app._parse_generated_at on the naive ISO strings the builder
\* writes: None for a missing value, the same naive datetime otherwise
parse_generated_at(value) == IF value = NoTime THEN NoTime ELSE value

\* fastapi_app._update_last_generation
update_last_generation(s, dt, period) ==
    [s EXCEPT !.timestamp = dt, !.period = period]

\* _should_regenerate with the threshold reached at exactly REFRESH_INTERVAL
should_regenerate_ge(s, requested_period, utc) ==
    IF s.in_progress THEN FALSE
    ELSE IF s.timestamp = NoTime THEN TRUE
    ELSE IF s.period # NoPeriod /\ s.period # requested_period THEN TRUE
    ELSE utc - s.timestamp >= REFRESH_INTERVAL

\* fastapi_app._should_regenerate
should_regenerate(s, requested_period, utc) ==
    IF s.in_progress THEN FALSE
    ELSE IF s.timestamp = NoTime THEN TRUE
    ELSE IF s.period # NoPeriod /\ s.period # requested_period THEN TRUE
    ELSE utc - s.timestamp > REFRESH_INTERVAL

\* fastapi_app._is_market_open
is_market_open(weekday, minute) ==
    IF weekday >= 5 THEN FALSE
    ELSE MARKET_OPEN_MINUTE <= minute /\ minute <= MARKET_CLOSE_MINUTE

MarketOpen == is_market_open(env.weekday, env.minute0 + now)

\* fastapi_app._load_report_from_disk: the state it leaves behind
load_report_from_disk(s, data) ==
    IF data = NoReport THEN s
    ELSE update_last_generation(s, parse_generated_at(data.generated_at), data.period)


\* ------------------------------------------------------- asyncio.Lock steps

\* Lock.acquire without suspension: unlocked and nobody queued
lock_is_free(lock) == ~lock.locked /\ lock.waiters = <<>>

\* Lock.release (leaving "async with"): unlock, wake the first waiter
lock_release(lock) ==
    [locked |-> FALSE, waiters |-> lock.waiters, woken |-> lock.waiters # <<>>]

\* ------------------------------------------------------------ call records

\* a caller's call in flight.  overtaken holds once another non-forced
\* maybe_generate call built the report, at the present clock reading, while
\* this non-forced maybe_generate call waited for the lock
IdleCall ==
    [pc |-> "idle", op |-> "none", period |-> NoPeriod, force |-> FALSE,
     overtaken |-> FALSE]

NewCall(op, period, force) ==
    [IdleCall EXCEPT !.pc = "running", !.op = op, !.period = period,
                     !.force = force]

NoJob == [phase |-> "none", period |-> NoPeriod, generated_at |-> NoTime]

\* `built` remembers the build that completed last, by its period and the
\* UTC instant its report was stamped at, until the next build starts
NoBuilt == [period |-> NoPeriod, at |-> NoTime]

\* `returned` describes the step that led to the current state: whether the
\* coroutine that returned or raised in it was called with force, and the
\* source line it left by (0 when no coroutine returned in the step):
\*   maybe_generate    116, 119, 123 return None; 132 return report;
\*                     134 the builder's exception leaves through finally
\*   process_portfolio 265, 276, 298 return the persisted report;
\*                     286 skipped; 320 return the new report; 330 HTTP 500
\*   129 / 309 cancelled at the executor await
NoReturn == [force |-> FALSE, exit |-> 0]
Return(call, exit) == [force |-> call.force, exit |-> exit]

ExitsFailed == {134, 330}
ExitsCached == {265, 276, 298}

\* The service (fastapi_app.py) and the worker (generate_report.py --worker)
\* are two programs; a run of the model is a run of one of them.
Service == env.program = "service"
Worker == env.program = "worker"

\* the build thread of c runs on after its caller was cancelled
Orphan(c) == calls[c].pc # "building"
Orphans == { d \in Callers : jobs[d].phase # "none" /\ Orphan(d) }

CanCall(c) == Service /\ calls[c].pc = "idle" /\ jobs[c].phase = "none"

\* ------------------------------------------------------- guarded sections
\* The caller c holds generation_lock; s is last_generation_state as the
\* caller finds it.  Each operator runs the coroutine up to its next await
\* (the executor future) or to its return, which releases the lock.

\* fastapi_app lines 125-129 / 306-309: mark in_progress, submit the build
StartBuild(c, call, s, lock) ==
    /\ last_generation_state' = [s EXCEPT !.in_progress = TRUE]
    /\ generation_lock' = [lock EXCEPT !.locked = TRUE]
    /\ calls' = [calls EXCEPT ![c] =
                   [call EXCEPT !.pc = "building", !.overtaken = FALSE]]
    /\ jobs' = [jobs EXCEPT ![c] =
                   [phase |-> "running", period |-> call.period,
                    generated_at |-> NoTime]]
    /\ returned' = NoReturn
    /\ built' = NoBuilt

\* return inside "async with": the lock is released on the way out
LeaveGuarded(c, call, s, lock, exit) ==
    /\ last_generation_state' = s
    /\ generation_lock' = lock_release(lock)
    /\ calls' = [calls EXCEPT ![c] = IdleCall]
    /\ jobs' = jobs
    /\ returned' = Return(call, exit)
    /\ built' = built

\* maybe_generate, lines 121-129
maybe_generate_guarded(c, call, s, lock) ==
    IF ~call.force /\ ~should_regenerate(s, call.period, utcnow)
    THEN LeaveGuarded(c, call, s, lock, 123)
    ELSE StartBuild(c, call, s, lock)

\* process_portfolio, lines 293-309
process_portfolio_guarded(c, call, s, lock) ==
    IF /\ ~call.force
       /\ ~should_regenerate(s, call.period, utcnow)
       /\ existing_portfolio_data # NoReport
    THEN LeaveGuarded(c, call, load_report_from_disk(s, existing_portfolio_data),
                      lock, 298)
    ELSE StartBuild(c, call, s, lock)

Guarded(c, call, s, lock) ==
    IF call.op = "maybe_generate"
    THEN maybe_generate_guarded(c, call, s, lock)
    ELSE process_portfolio_guarded(c, call, s, lock)

\* "async with generation_lock": enter at once when the lock is free,
\* otherwise queue behind the waiters
EnterLock(c, call, s) ==
    IF lock_is_free(generation_lock)
    THEN Guarded(c, call, s, generation_lock)
    ELSE /\ generation_lock' =
               [generation_lock EXCEPT !.waiters = Append(@, c)]
         /\ calls' = [calls EXCEPT ![c] = [call EXCEPT !.pc = "waiting"]]
         /\ last_generation_state' = s
         /\ jobs' = jobs
         /\ returned' = NoReturn
         /\ built' = built

\* an early return that records the time of the check as a generation
ReturnEarly_stamps(c, call, s, exit) ==
    /\ last_generation_state' = [s EXCEPT !.timestamp = utcnow]
    /\ calls' = [calls EXCEPT ![c] = IdleCall]
    /\ returned' = Return(call, exit)
    /\ UNCHANGED <<generation_lock, jobs, built>>

\* return before the lock is touched
ReturnEarly(c, call, s, exit) ==
    /\ last_generation_state' = s
    /\ calls' = [calls EXCEPT ![c] = IdleCall]
    /\ returned' = Return(call, exit)
    /\ UNCHANGED <<generation_lock, jobs, built>>

\* ----------------------------------------------------------- the handlers

\* maybe_generate without the market-hours gate
MaybeGenerate_ungated(c, period, force) ==
    /\ CanCall(c)
    /\ LET call == NewCall("maybe_generate", period, force)
           s == last_generation_state
       IN  IF ~force /\ ~should_regenerate(s, period, utcnow)
           THEN ReturnEarly(c, call, s, 119)
           ELSE EnterLock(c, call, s)
    /\ UNCHANGED <<now, env, existing_portfolio_data, worker, asked,
                   overview, movers, fetcher, applied>>

\* maybe_generate(period, force=...) up to its first await or its return
MaybeGenerate(c, period, force) ==
    /\ CanCall(c)
    /\ LET call == NewCall("maybe_generate", period, force)
           s == last_generation_state
       IN  IF ~force /\ ~MarketOpen
           THEN ReturnEarly(c, call, s, 116)
           ELSE IF ~force /\ ~should_regenerate(s, period, utcnow)
           THEN ReturnEarly(c, call, s, 119)
           ELSE EnterLock(c, call, s)
    /\ UNCHANGED <<now, env, existing_portfolio_data, worker, asked,
                   overview, movers, fetcher, applied>>

\* request.symbols or the symbols of PORTFOLIO_CONFIG (line 259)
request_symbols(symbols) ==
    IF symbols # <<>> THEN symbols ELSE PORTFOLIO_CONFIG_assets

any_endswith_USD(symbols) ==
    \E i \in 1..Len(symbols) : endswith_USD(symbols[i])

\* POST /process without the two cached answers ahead of the lock
ProcessPortfolio_queues(c, period, force, symbols) ==
    /\ CanCall(c)
    /\ LET call == NewCall("process_portfolio", period, force)
           s == last_generation_state
           syms == request_symbols(symbols)
       IN  IF ~force /\ syms # <<>> /\ ~any_endswith_USD(syms)
              /\ ~MarketOpen
           THEN ReturnEarly(c, call, s, 286)
           ELSE EnterLock(c, call, s)
    /\ UNCHANGED <<now, env, existing_portfolio_data, worker, asked,
                   overview, movers, fetcher, applied>>

\* POST /process with the market hours looked at whatever the symbols are
ProcessPortfolio_gates_all(c, period, force, symbols) ==
    /\ CanCall(c)
    /\ LET call == NewCall("process_portfolio", period, force)
           s == last_generation_state
           data == existing_portfolio_data
           syms == request_symbols(symbols)
       IN  IF s.in_progress /\ ~force /\ data # NoReport
           THEN ReturnEarly(c, call, load_report_from_disk(s, data), 265)
           ELSE IF ~force /\ ~should_regenerate(s, period, utcnow)
                   /\ data # NoReport
           THEN ReturnEarly(c, call, load_report_from_disk(s, data), 276)
           ELSE IF ~force /\ syms # <<>> /\ ~MarketOpen
           THEN ReturnEarly(c, call, s, 286)
           ELSE EnterLock(c, call, s)
    /\ UNCHANGED <<now, env, existing_portfolio_data, worker, asked,
                   overview, movers, fetcher, applied>>

\* POST /process/{user_id} up to its first await or its return
ProcessPortfolio(c, period, force, symbols) ==
    /\ CanCall(c)
    /\ LET call == NewCall("process_portfolio", period, force)
           s == last_generation_state
           data == existing_portfolio_data
           syms == request_symbols(symbols)
       IN  IF s.in_progress /\ ~force /\ data # NoReport
           THEN ReturnEarly(c, call, load_report_from_disk(s, data), 265)
           ELSE IF ~force /\ ~should_regenerate(s, period, utcnow)
                   /\ data # NoReport
           THEN ReturnEarly(c, call, load_report_from_disk(s, data), 276)
           ELSE IF ~force /\ syms # <<>> /\ ~any_endswith_USD(syms)
                   /\ ~MarketOpen
           THEN ReturnEarly(c, call, s, 286)
           ELSE EnterLock(c, call, s)
    /\ UNCHANGED <<now, env, existing_portfolio_data, worker, asked,
                   overview, movers, fetcher, applied>>

\* a queued caller whose lock future was resolved takes the lock
Resume(c) ==
    /\ calls[c].pc = "waiting"
    /\ generation_lock.woken
    /\ generation_lock.waiters # <<>>
    /\ Head(generation_lock.waiters) = c
    /\ Guarded(c, calls[c], last_generation_state,
               [locked |-> TRUE, waiters |-> Tail(generation_lock.waiters),
                woken |-> FALSE])
    /\ UNCHANGED <<now, env, existing_portfolio_data, worker, asked,
                   overview, movers, fetcher, applied>>

\* a non-forced maybe_generate call has built the report: the non-forced
\* maybe_generate calls for the same period that wait for the lock are
\* overtaken
Cohort(call) == call.op = "maybe_generate" /\ ~call.force

Overtake(cs, c, call) ==
    [d \in Callers |->
        IF /\ d # c /\ cs[d].pc = "waiting" /\ Cohort(call) /\ Cohort(cs[d])
           /\ cs[d].period = call.period
        THEN [cs[d] EXCEPT !.overtaken = TRUE]
        ELSE cs[d]]

\* the timestamp each handler records after a build (lines 130-131, 310-319)
recorded_timestamp(generated_at, utc) ==
    IF parse_generated_at(generated_at) = NoTime THEN utc
    ELSE parse_generated_at(generated_at)

\* the executor future resolved with the report: lines 130-134 / 310-332
BuildDone(c) ==
    /\ calls[c].pc = "building"
    /\ jobs[c].phase = "returned"
    /\ LET call == calls[c]
           s1 == update_last_generation(last_generation_state,
                     recorded_timestamp(jobs[c].generated_at, utcnow),
                     call.period)
       IN  /\ last_generation_state' = [s1 EXCEPT !.in_progress = FALSE]
           /\ calls' = Overtake([calls EXCEPT ![c] = IdleCall], c, call)
           /\ returned' = Return(call,
                  IF call.op = "maybe_generate" THEN 132 ELSE 320)
    /\ generation_lock' = lock_release(generation_lock)
    /\ built' = [period |-> calls[c].period,
                 at |-> IF jobs[c].generated_at = NoTime THEN utcnow
                        ELSE jobs[c].generated_at - env.tz]
    /\ jobs' = [jobs EXCEPT ![c] = NoJob]
    /\ UNCHANGED <<now, env, existing_portfolio_data, worker, asked,
                   overview, movers, fetcher, applied>>

\* a failed /process build answered with the persisted report when there
\* is one
BuildFail_cached(c) ==
    /\ calls[c].pc = "building"
    /\ jobs[c].phase = "raised"
    /\ last_generation_state' =
           [last_generation_state EXCEPT !.in_progress = FALSE]
    /\ calls' = [calls EXCEPT ![c] = IdleCall]
    /\ returned' = Return(calls[c],
           IF calls[c].op = "maybe_generate" THEN 134
           ELSE IF existing_portfolio_data # NoReport THEN 298 ELSE 330)
    /\ generation_lock' = lock_release(generation_lock)
    /\ jobs' = [jobs EXCEPT ![c] = NoJob]
    /\ UNCHANGED <<now, env, existing_portfolio_data, worker, asked,
                   overview, movers, fetcher, applied, built>>

\* the builder's exception leaves without the finally clause
BuildFail_no_finally(c) ==
    /\ calls[c].pc = "building"
    /\ jobs[c].phase = "raised"
    /\ last_generation_state' = last_generation_state
    /\ calls' = [calls EXCEPT ![c] = IdleCall]
    /\ returned' = Return(calls[c],
           IF calls[c].op = "maybe_generate" THEN 134 ELSE 330)
    /\ generation_lock' = lock_release(generation_lock)
    /\ jobs' = [jobs EXCEPT ![c] = NoJob]
    /\ UNCHANGED <<now, env, existing_portfolio_data, worker, asked,
                   overview, movers, fetcher, applied, built>>

\* a builder exception that leaves the lock held
BuildFail_keeps_lock(c) ==
    /\ calls[c].pc = "building"
    /\ jobs[c].phase = "raised"
    /\ last_generation_state' =
           [last_generation_state EXCEPT !.in_progress = FALSE]
    /\ calls' = [calls EXCEPT ![c] = IdleCall]
    /\ returned' = Return(calls[c],
           IF calls[c].op = "maybe_generate" THEN 134 ELSE 330)
    /\ generation_lock' = generation_lock
    /\ jobs' = [jobs EXCEPT ![c] = NoJob]
    /\ UNCHANGED <<now, env, existing_portfolio_data, worker, asked,
                   overview, movers, fetcher, applied, built>>

\* the executor future resolved with the builder's exception: the finally
\* clause runs, maybe_generate re-raises, /process answers HTTP 500
BuildFail(c) ==
    /\ calls[c].pc = "building"
    /\ jobs[c].phase = "raised"
    /\ last_generation_state' =
           [last_generation_state EXCEPT !.in_progress = FALSE]
    /\ calls' = [calls EXCEPT ![c] = IdleCall]
    /\ returned' = Return(calls[c],
           IF calls[c].op = "maybe_generate" THEN 134 ELSE 330)
    /\ generation_lock' = lock_release(generation_lock)
    /\ jobs' = [jobs EXCEPT ![c] = NoJob]
    /\ UNCHANGED <<now, env, existing_portfolio_data, worker, asked,
                   overview, movers, fetcher, applied, built>>

\* a cancellation that leaves without the finally clause
CancelBuilding_no_finally(c) ==
    /\ calls[c].pc = "building"
    /\ Cardinality(Orphans) < MaxOrphans
    /\ last_generation_state' = last_generation_state
    /\ calls' = [calls EXCEPT ![c] = IdleCall]
    /\ returned' = Return(calls[c],
           IF calls[c].op = "maybe_generate" THEN 129 ELSE 309)
    /\ generation_lock' = lock_release(generation_lock)
    /\ jobs' = [jobs EXCEPT ![c] =
                   IF @.phase \in {"returned", "raised"} THEN NoJob ELSE @]
    /\ UNCHANGED <<now, env, existing_portfolio_data, worker, asked,
                   overview, movers, fetcher, applied, built>>

\* the caller's task is cancelled while it awaits the executor future:
\* CancelledError passes "except Exception", the finally clause clears
\* in_progress, the lock is released; the executor thread keeps running
CancelBuilding(c) ==
    /\ calls[c].pc = "building"
    /\ Cardinality(Orphans) < MaxOrphans
    /\ last_generation_state' =
           [last_generation_state EXCEPT !.in_progress = FALSE]
    /\ calls' = [calls EXCEPT ![c] = IdleCall]
    /\ returned' = Return(calls[c],
           IF calls[c].op = "maybe_generate" THEN 129 ELSE 309)
    /\ generation_lock' = lock_release(generation_lock)
    /\ jobs' = [jobs EXCEPT ![c] =
                   IF @.phase \in {"returned", "raised"} THEN NoJob ELSE @]
    /\ UNCHANGED <<now, env, existing_portfolio_data, worker, asked,
                   overview, movers, fetcher, applied, built>>

\* ------------------------------------- the builder, on the executor thread
\* PortfolioManager.generate_full_report(period): steps 1-7 may raise;
\* step 8 stamps generated_at with datetime.now(); step 9 saves.

\* step 8: "generated_at": datetime.now().isoformat()
JobStamp(c) ==
    /\ jobs[c].phase = "running"
    /\ jobs' = [jobs EXCEPT ![c] = [@ EXCEPT !.phase = "stamped",
                                             !.generated_at = localnow]]
    /\ returned' = NoReturn
    /\ UNCHANGED <<now, env, last_generation_state, generation_lock,
                   existing_portfolio_data, calls, worker, asked,
                   overview, movers, fetcher, applied, built>>

\* steps 1-7 raise (a quote or history fetch, a chart): no report, no save
JobRaise(c) ==
    /\ jobs[c].phase = "running"
    /\ jobs' = [jobs EXCEPT ![c] =
                   IF Orphan(c) THEN NoJob ELSE [@ EXCEPT !.phase = "raised"]]
    /\ returned' = NoReturn
    /\ UNCHANGED <<now, env, last_generation_state, generation_lock,
                   existing_portfolio_data, calls, worker, asked,
                   overview, movers, fetcher, applied, built>>

\* PortfolioManager._save_portfolio_data: Supabase, else the local file;
\* when both fail the error is logged and the cached report is left as it was
save_portfolio_data(data, report, saved) == IF saved THEN report ELSE data

\* step 9 and the return of the sanitized report
JobSave(c, saved) ==
    /\ jobs[c].phase = "stamped"
    /\ existing_portfolio_data' =
           save_portfolio_data(existing_portfolio_data,
                               [generated_at |-> jobs[c].generated_at,
                                period |-> jobs[c].period], saved)
    /\ jobs' = [jobs EXCEPT ![c] =
                   IF Orphan(c) THEN NoJob ELSE [@ EXCEPT !.phase = "returned"]]
    /\ returned' = NoReturn
    /\ UNCHANGED <<now, env, last_generation_state, generation_lock,
                   calls, worker, asked,
                   overview, movers, fetcher, applied, built>>

\* ------------------------------------------------------------- the reads

\* a read that waits for generation_lock before it loads the report
GetReport_under_lock ==
    /\ Service
    /\ lock_is_free(generation_lock)
    /\ last_generation_state' =
           load_report_from_disk(last_generation_state, existing_portfolio_data)
    /\ returned' = [force |-> FALSE,
                    exit |-> IF existing_portfolio_data # NoReport
                             THEN 217 ELSE 212]
    /\ UNCHANGED <<now, env, generation_lock, existing_portfolio_data,
                   calls, jobs, worker, asked,
                   overview, movers, fetcher, applied, built>>

\* GET /report, /summary, /market: each calls _load_report_from_disk and
\* answers in the same step (212: no_data, 217: the persisted report)
GetReport ==
    /\ Service
    /\ last_generation_state' =
           load_report_from_disk(last_generation_state, existing_portfolio_data)
    /\ returned' = [force |-> FALSE,
                    exit |-> IF existing_portfolio_data # NoReport
                             THEN 217 ELSE 212]
    /\ UNCHANGED <<now, env, generation_lock, existing_portfolio_data,
                   calls, jobs, worker, asked,
                   overview, movers, fetcher, applied, built>>

\* GET /health reads last_generation_state
Health ==
    /\ Service
    /\ returned' = NoReturn
    /\ UNCHANGED <<now, env, last_generation_state, generation_lock,
                   existing_portfolio_data, calls, jobs, worker, asked,
                   overview, movers, fetcher, applied, built>>

\* ------------------------------------------------------------- the clock

Tick ==
    /\ now + TickMinutes <= MaxTime
    /\ now' = now + TickMinutes
    /\ calls' = [c \in Callers |-> [calls[c] EXCEPT !.overtaken = FALSE]]
    /\ returned' = NoReturn
    /\ UNCHANGED <<env, last_generation_state, generation_lock,
                   existing_portfolio_data, jobs, worker, asked,
                   overview, movers, fetcher, applied, built>>

\* ------------------------------------ generate_report.py, the worker loop

TRADING_WINDOW_START == 570
TRADING_WINDOW_END == 960
TRADING_DAYS == 0..4

\* generate_report._within_trading_window with the default configuration
within_trading_window(weekday, minute) ==
    IF weekday \notin TRADING_DAYS THEN FALSE
    ELSE IF TRADING_WINDOW_START <= TRADING_WINDOW_END
    THEN TRADING_WINDOW_START <= minute /\ minute <= TRADING_WINDOW_END
    ELSE minute >= TRADING_WINDOW_START \/ minute <= TRADING_WINDOW_END

\* generate_report.run_report: the builder's exception is caught and logged
run_report(w, raised) ==
    [w EXCEPT !.last = IF raised THEN "failed" ELSE "ok"]

\* one turn of run_worker's loop (and its initial run)
WorkerTick(raised) ==
    /\ Worker
    /\ worker.alive
    /\ worker' = IF within_trading_window(env.weekday, env.minute0 + now)
                 THEN run_report(worker, raised)
                 ELSE [worker EXCEPT !.last = "skipped"]
    /\ UNCHANGED <<now, env, last_generation_state, generation_lock,
                   existing_portfolio_data, calls, jobs, returned, asked,
                   overview, movers, fetcher, applied, built>>

\* ------------------------------------------- _should_regenerate on its own

NoAsk == [period |-> NoPeriod, result |-> FALSE]

\* one evaluation of _should_regenerate(requested_period)
Ask(requested_period) ==
    /\ asked' = [period |-> requested_period,
                 result |-> should_regenerate(last_generation_state,
                                              requested_period, utcnow)]
    /\ UNCHANGED <<now, env, last_generation_state, generation_lock,
                   existing_portfolio_data, calls, jobs, worker, returned,
                   overview, movers, fetcher, applied, built>>

\* -------------------- portfolio_calculator.py, get_market_overview
\* One call of PortfolioCalculator.get_market_overview(watchlist,
\* source_data=..., top_n=..., use_persisted=...).  The quote lookups and
\* the mover tables are the call's inputs; a bucket of market_data_map is
\* the sequence of its entries in insertion order (a dict keeps it).

None == -999                        \* Python's None in a numeric field

Symbols == {"AAPL", "TSLA", "MSFT", "SPOT", "NVDA"}
FieldNames == {"current_price", "change_percent", "volume"}
TopNs == {1, 2}
MaxOverviewCalls == 2

\* DataFetcher.get_stock_info's answer when the lookup raises (lines 171-185)
fallback == [current_price |-> None, change_percent |-> 0, volume |-> None]

Quote(price, change, volume) ==
    [current_price |-> price, change_percent |-> change, volume |-> volume]

\* what the quote source answers, per symbol
QuotesUp ==
    [s \in Symbols |->
        CASE s = "AAPL" -> Quote(10, 2, 5)
          [] s = "TSLA" -> Quote(20, -1, 7)
          [] s = "MSFT" -> Quote(30, 0, 3)
          [] s = "SPOT" -> Quote(40, 1, None)
          [] OTHER      -> Quote(50, -3, 9)]
QuotesFailed == [s \in Symbols |-> fallback]
QuotesMixed ==
    [s \in Symbols |->
        CASE s = "AAPL" -> fallback
          [] s = "TSLA" -> Quote(20, 4, 7)
          [] s = "MSFT" -> Quote(30, 0, 3)
          [] s = "SPOT" -> Quote(None, 5, 1)
          [] OTHER      -> Quote(50, -3, 9)]
QuoteInputs == {QuotesUp, QuotesFailed, QuotesMixed}

\* watchlist items are dicts; only "symbol" decides what the loop does
WatchlistInputs ==
    { <<>>,
      <<"AAPL", "TSLA">>,
      <<"TSLA", "", "MSFT", "SPOT", "TSLA", "NVDA">> }

Row(symbol, price, percent_change, volume) ==
    [symbol |-> symbol, price |-> price, percent_change |-> percent_change,
     volume |-> volume]

\* get_market_movers returned None
NoTable == [fetched |-> FALSE, rows |-> <<>>]
RowsA ==
    [fetched |-> TRUE,
     rows |-> << Row("AAPL", None, 3, 5), Row("", 1, 1, 1),
                 Row("tsla", 7, None, 0), Row("MSFT", 4, -2, 9) >>]
RowsB ==
    [fetched |-> TRUE,
     rows |-> << Row("AAPL", 10, None, None), Row("NVDA", 0, 6, 2),
                 Row("SPOT", 8, -5, 4) >>]
TableInputs == {NoTable, RowsA, RowsB}

\* the iteration order of movers_map (lines 278-283); bucket = mover type
movers_map == <<"gainers", "losers", "active", "viewed">>
MoverTypes == {"gainers", "losers", "active", "viewed"}
Buckets == {"watchlist", "viewed", "gainers", "losers", "active"}
Sections == {"all", "gainers", "losers", "most_viewed", "most_active"}

\* str(...).upper()
upper(symbol) == IF symbol = "tsla" THEN "TSLA" ELSE symbol

\* Python's "a or b" on a number or None
Or(a, b) == IF a = None \/ a = 0 THEN b ELSE a

Min(a, b) == IF a <= b THEN a ELSE b

\* seq[:n]
head(seq, n) == SubSeq(seq, 1, Min(n, Len(seq)))

NoEntry == [symbol |-> "", current_price |-> None, change_percent |-> None,
            volume |-> None]

\* DataFetcher.get_stock_info(symbol): the quote, or the fallback
get_stock_info(quotes, symbol) == quotes[symbol]

\* a bucket entry that replaces the existing one by the payload, nulls too
merged_overwrite(existing, payload) == payload

\* line 244: {**existing, **{k: v for k, v in payload.items() if v is not None}}
merged(existing, payload) ==
    [symbol |-> payload.symbol,
     current_price |-> IF payload.current_price # None
                       THEN payload.current_price ELSE existing.current_price,
     change_percent |-> IF payload.change_percent # None
                        THEN payload.change_percent ELSE existing.change_percent,
     volume |-> IF payload.volume # None
                THEN payload.volume ELSE existing.volume]

\* upsert (lines 242-245) on one bucket
upsert(bucket, symbol, payload) ==
    IF \E i \in 1..Len(bucket) : bucket[i].symbol = symbol
    THEN [i \in 1..Len(bucket) |->
             IF bucket[i].symbol = symbol
             THEN merged(bucket[i], payload) ELSE bucket[i]]
    ELSE Append(bucket, merged(NoEntry, payload))

\* the payload of a watchlist item (lines 260-270)
watchlist_payload(symbol, info) ==
    [symbol |-> symbol, current_price |-> info.current_price,
     change_percent |-> info.change_percent, volume |-> info.volume]

\* the watchlist loop's body (lines 248-276) with >= in place of >
watchlist_item_nonnegative(map, symbol, quotes) ==
    IF symbol = "" THEN map
    ELSE LET payload == watchlist_payload(symbol, get_stock_info(quotes, symbol))
             m1 == [map EXCEPT !.watchlist = upsert(@, symbol, payload)]
         IN  IF payload.change_percent = None THEN m1
             ELSE IF payload.change_percent >= 0
             THEN [m1 EXCEPT !.gainers = upsert(@, symbol, payload)]
             ELSE [m1 EXCEPT !.losers = upsert(@, symbol, payload)]

\* the watchlist loop's body (lines 248-276)
watchlist_item(map, symbol, quotes) ==
    IF symbol = "" THEN map
    ELSE LET payload == watchlist_payload(symbol, get_stock_info(quotes, symbol))
             m1 == [map EXCEPT !.watchlist = upsert(@, symbol, payload)]
         IN  IF payload.change_percent = None THEN m1
             ELSE IF payload.change_percent > 0
             THEN [m1 EXCEPT !.gainers = upsert(@, symbol, payload)]
             ELSE IF payload.change_percent < 0
             THEN [m1 EXCEPT !.losers = upsert(@, symbol, payload)]
             ELSE m1

\* the payload of a mover row (lines 306-317)
mover_payload(row, info) ==
    [symbol |-> upper(row.symbol),
     current_price |-> Or(row.price, info.current_price),
     change_percent |-> Or(row.percent_change, info.change_percent),
     volume |-> Or(row.volume, info.volume)]

\* one row of a mover table (lines 293-322)
mover_row(map, bucket, row, quotes) ==
    LET symbol == upper(row.symbol)
    IN  IF symbol = "" THEN map
        ELSE LET payload == mover_payload(row, get_stock_info(quotes, symbol))
                 m1 == [map EXCEPT ![bucket] = upsert(@, symbol, payload)]
             IN  [m1 EXCEPT !.viewed = upsert(@, symbol, payload)]

\* the rows of table.head(top_n), in order
RECURSIVE mover_rows(_, _, _, _)
mover_rows(map, bucket, rows, quotes) ==
    IF rows = <<>> THEN map
    ELSE mover_rows(mover_row(map, bucket, Head(rows), quotes), bucket,
                    Tail(rows), quotes)

\* one turn of the movers loop (lines 286-322)
mover_table(map, bucket, table, top_n, quotes) ==
    IF ~table.fetched THEN map
    ELSE mover_rows(map, bucket, head(table.rows, top_n), quotes)

\* sort_bucket's key: entry.get(key) or 0
sort_key(entry, key) == Or(entry[key], 0)

\* sorted() is stable, with reverse=True too: x goes behind its equals
insert_sorted(sorted, x, key, reverse) ==
    LET ahead == { i \in 1..Len(sorted) :
                     IF reverse
                     THEN sort_key(sorted[i], key) >= sort_key(x, key)
                     ELSE sort_key(sorted[i], key) <= sort_key(x, key) }
        p == Cardinality(ahead)
    IN  SubSeq(sorted, 1, p) \o <<x>> \o SubSeq(sorted, p + 1, Len(sorted))

\* a bucket listed in the order it was filled in
sort_bucket_unsorted(items, key, reverse) == items

\* sort_bucket (lines 324-330)
RECURSIVE sort_bucket(_, _, _)
sort_bucket(items, key, reverse) ==
    IF items = <<>> THEN <<>>
    ELSE insert_sorted(sort_bucket(SubSeq(items, 1, Len(items) - 1), key, reverse),
                       items[Len(items)], key, reverse)

symbols_of(entries) == { entries[i].symbol : i \in 1..Len(entries) }

\* merging with no "seen" set
RECURSIVE merge_all(_, _)
merge_all(entries, merged_list) ==
    IF entries = <<>> THEN merged_list
    ELSE merge_all(Tail(entries), Append(merged_list, Head(entries)))

\* merge_unique's loop (lines 338-349) over the buckets laid end to end
RECURSIVE merge_unique(_, _)
merge_unique(entries, merged_list) ==
    IF entries = <<>> THEN merged_list
    ELSE IF Head(entries).symbol = ""
            \/ Head(entries).symbol \in symbols_of(merged_list)
    THEN merge_unique(Tail(entries), merged_list)
    ELSE merge_unique(Tail(entries), Append(merged_list, Head(entries)))

\* the watchlist backfill (lines 364-373)
RECURSIVE backfill(_, _, _)
backfill(all_list, items, cap) ==
    IF items = <<>> THEN all_list
    ELSE IF Head(items).symbol = ""
            \/ Head(items).symbol \in symbols_of(all_list)
    THEN backfill(all_list, Tail(items), cap)
    ELSE IF Len(all_list) + 1 >= cap
    THEN Append(all_list, Head(items))
    ELSE backfill(Append(all_list, Head(items)), Tail(items), cap)

\* an all list that puts the viewed bucket first
all_list_of_viewed_first(map, top_n) ==
    LET viewed_list == sort_bucket(map.viewed, "volume", TRUE)
        watchlist_list == sort_bucket(map.watchlist, "change_percent", TRUE)
        gainers_list == sort_bucket(map.gainers, "change_percent", TRUE)
        losers_list == sort_bucket(map.losers, "change_percent", FALSE)
        active_list == sort_bucket(map.active, "volume", TRUE)
        priority == merge_unique(viewed_list \o gainers_list \o losers_list
                                     \o active_list, <<>>)
        first == IF priority = <<>> THEN merge_unique(watchlist_list, <<>>)
                 ELSE priority
    IN  IF Len(first) < top_n * 2
        THEN backfill(first, watchlist_list, top_n * 2)
        ELSE first

\* an all list that puts the losers ahead of the gainers
all_list_of_losers_first(map, top_n) ==
    LET viewed_list == sort_bucket(map.viewed, "volume", TRUE)
        watchlist_list == sort_bucket(map.watchlist, "change_percent", TRUE)
        gainers_list == sort_bucket(map.gainers, "change_percent", TRUE)
        losers_list == sort_bucket(map.losers, "change_percent", FALSE)
        active_list == sort_bucket(map.active, "volume", TRUE)
        priority == merge_unique(losers_list \o gainers_list \o active_list
                                     \o viewed_list, <<>>)
        first == IF priority = <<>> THEN merge_unique(watchlist_list, <<>>)
                 ELSE priority
    IN  IF Len(first) < top_n * 2
        THEN backfill(first, watchlist_list, top_n * 2)
        ELSE first

\* all_list (lines 351-373)
all_list_of(map, top_n) ==
    LET viewed_list == sort_bucket(map.viewed, "volume", TRUE)
        watchlist_list == sort_bucket(map.watchlist, "change_percent", TRUE)
        gainers_list == sort_bucket(map.gainers, "change_percent", TRUE)
        losers_list == sort_bucket(map.losers, "change_percent", FALSE)
        active_list == sort_bucket(map.active, "volume", TRUE)
        priority == merge_unique(gainers_list \o losers_list \o active_list
                                     \o viewed_list, <<>>)
        first == IF priority = <<>> THEN merge_unique(watchlist_list, <<>>)
                 ELSE priority
    IN  IF Len(first) < top_n * 2
        THEN backfill(first, watchlist_list, top_n * 2)
        ELSE first

\* the response with no list cut to its size
response_untruncated(map, top_n) ==
    LET viewed_list == sort_bucket(map.viewed, "volume", TRUE)
        watchlist_list == sort_bucket(map.watchlist, "change_percent", TRUE)
    IN  [all |-> all_list_of(map, top_n),
         gainers |-> sort_bucket(map.gainers, "change_percent", TRUE),
         losers |-> sort_bucket(map.losers, "change_percent", FALSE),
         most_viewed |-> IF viewed_list # <<>> THEN viewed_list
                         ELSE watchlist_list,
         most_active |-> sort_bucket(map.active, "volume", TRUE)]

\* response (lines 375-381)
response_of(map, top_n) ==
    LET viewed_list == sort_bucket(map.viewed, "volume", TRUE)
        watchlist_list == sort_bucket(map.watchlist, "change_percent", TRUE)
    IN  [all |-> head(all_list_of(map, top_n), top_n * 2),
         gainers |-> head(sort_bucket(map.gainers, "change_percent", TRUE),
                          top_n),
         losers |-> head(sort_bucket(map.losers, "change_percent", FALSE),
                         top_n),
         most_viewed |-> IF viewed_list # <<>> THEN head(viewed_list, top_n)
                         ELSE head(watchlist_list, top_n),
         most_active |-> head(sort_bucket(map.active, "volume", TRUE), top_n)]

EmptyMap == [b \in Buckets |-> <<>>]
EmptySections == [k \in Sections |-> <<>>]

\* source_data: the persisted report, or None
NoSourceData == [present |-> FALSE, market_overview |-> EmptySections]

\* the persisted overview is reused only with these four lists non-empty
\* (lines 226-231)
reusable(source_data) ==
    /\ source_data.present
    /\ source_data.market_overview.all # <<>>
    /\ source_data.market_overview.gainers # <<>>
    /\ source_data.market_overview.losers # <<>>
    /\ source_data.market_overview.most_active # <<>>

\* "market_overview" of the report that generate_full_report saves
\* (portfolio_manager lines 154-158, 183-189)
report_market_overview(sections) ==
    [all |-> sections.all,
     gainers |-> head(sections.gainers, 5),
     losers |-> head(sections.losers, 5),
     most_viewed |-> head(IF sections.most_viewed # <<>>
                          THEN sections.most_viewed ELSE sections.all, 4),
     most_active |-> head(IF sections.most_active # <<>>
                          THEN sections.most_active ELSE sections.all, 5)]

NoOverview ==
    [pc |-> "idle", n |-> 0, watchlist |-> <<>>,
     tables |-> [t \in MoverTypes |-> NoTable], quotes |-> QuotesFailed,
     top_n |-> 1, use_persisted |-> FALSE, source_data |-> NoSourceData,
     idx |-> 1, market_data_map |-> EmptyMap, response |-> EmptySections,
     reused |-> FALSE]

service_vars == <<now, env, last_generation_state, generation_lock,
                  existing_portfolio_data, calls, jobs, worker, returned,
                  asked>>

\* lines 214-240: the persisted overview is returned as it is, or the
\* buckets start empty
EnterOverview ==
    /\ overview.pc = "called"
    /\ overview' =
         IF overview.use_persisted /\ reusable(overview.source_data)
         THEN [overview EXCEPT !.pc = "done", !.reused = TRUE,
                               !.response = overview.source_data.market_overview]
         ELSE [overview EXCEPT !.pc = IF overview.watchlist = <<>>
                                      THEN "movers" ELSE "watchlist",
                               !.idx = 1, !.reused = FALSE,
                               !.market_data_map = EmptyMap,
                               !.response = EmptySections]
    /\ UNCHANGED <<service_vars, movers, fetcher, applied, built>>

\* one turn of the watchlist loop
WatchlistItem ==
    /\ overview.pc = "watchlist"
    /\ overview' =
         [overview EXCEPT
            !.market_data_map =
                watchlist_item(@, overview.watchlist[overview.idx],
                               overview.quotes),
            !.idx = IF overview.idx = Len(overview.watchlist) THEN 1 ELSE @ + 1,
            !.pc = IF overview.idx = Len(overview.watchlist)
                   THEN "movers" ELSE "watchlist"]
    /\ UNCHANGED <<service_vars, movers, fetcher, applied, built>>

\* a movers loop that gives the call up when a table is missing
MoversTable_aborts ==
    /\ overview.pc = "movers"
    /\ LET mover_type == movers_map[overview.idx]
       IN  overview' =
             IF ~overview.tables[mover_type].fetched
             THEN [overview EXCEPT !.pc = "failed"]
             ELSE [overview EXCEPT
                     !.market_data_map =
                         mover_table(@, mover_type, overview.tables[mover_type],
                                     overview.top_n, overview.quotes),
                     !.idx = IF overview.idx = Len(movers_map) THEN 1 ELSE @ + 1,
                     !.pc = IF overview.idx = Len(movers_map)
                            THEN "sorting" ELSE "movers"]
    /\ UNCHANGED <<service_vars, movers, fetcher, applied, built>>

\* one turn of the movers loop: a table that is None is passed over
MoversTable ==
    /\ overview.pc = "movers"
    /\ LET mover_type == movers_map[overview.idx]
       IN  overview' =
             [overview EXCEPT
                !.market_data_map =
                    mover_table(@, mover_type, overview.tables[mover_type],
                                overview.top_n, overview.quotes),
                !.idx = IF overview.idx = Len(movers_map) THEN 1 ELSE @ + 1,
                !.pc = IF overview.idx = Len(movers_map)
                       THEN "sorting" ELSE "movers"]
    /\ UNCHANGED <<service_vars, movers, fetcher, applied, built>>

\* a response step that takes an overview with nothing in it for a failure
Respond_rejects_empty ==
    /\ overview.pc = "sorting"
    /\ LET response == response_of(overview.market_data_map, overview.top_n)
       IN  overview' =
             IF response.all = <<>>
             THEN [overview EXCEPT !.pc = "failed"]
             ELSE [overview EXCEPT !.pc = "done", !.response = response]
    /\ UNCHANGED <<service_vars, movers, fetcher, applied, built>>

\* lines 324-383: sort, merge, cut, return
Respond ==
    /\ overview.pc = "sorting"
    /\ overview' =
         [overview EXCEPT
            !.pc = "done",
            !.response = response_of(overview.market_data_map, overview.top_n)]
    /\ UNCHANGED <<service_vars, movers, fetcher, applied, built>>

\* generate_full_report saves the report with the overview in it
SaveOverview ==
    /\ overview.pc = "done"
    /\ overview.n < MaxOverviewCalls
    /\ overview' =
         [overview EXCEPT
            !.pc = "saved",
            !.source_data =
                [present |-> TRUE,
                 market_overview |-> report_market_overview(overview.response)]]
    /\ UNCHANGED <<service_vars, movers, fetcher, applied, built>>

\* the next call, on the same watchlist and the same market
CallOverview(top_n, use_persisted) ==
    /\ overview.pc = "saved"
    /\ overview' =
         [overview EXCEPT !.pc = "called", !.n = @ + 1, !.top_n = top_n,
                          !.use_persisted = use_persisted]
    /\ UNCHANGED <<service_vars, movers, fetcher, applied, built>>

\* ------------------------- data_fetcher.py, the market movers cache
\* A table is told by the time it was fetched at; NoTime is no table.

MOVERS_TTL == 15
MoverMinutes == 5
MaxMoverTime == 20

NoFetch == [mover_type |-> "none", live |-> FALSE, table |-> NoTime]

\* DataFetcher.__init__: the cache is empty and has no time
NoMovers ==
    [cache |-> [t \in MoverTypes |-> NoTime], cache_time |-> NoTime,
     last |-> NoFetch]

\* DataFetcher._should_use_cached_market_movers
should_use_cached_market_movers(m, utc) ==
    IF m.cache_time = NoTime THEN FALSE
    ELSE utc - m.cache_time < MOVERS_TTL

\* a get_market_movers that drops the category's cached table when the
\* live fetch fails
GetMarketMovers_evicts(mover_type, fetched) ==
    /\ movers' =
         IF /\ should_use_cached_market_movers(movers, utcnow)
            /\ movers.cache[mover_type] # NoTime
         THEN [movers EXCEPT
                 !.last = [mover_type |-> mover_type, live |-> FALSE,
                           table |-> movers.cache[mover_type]]]
         ELSE IF ~fetched
         THEN [movers EXCEPT
                 !.cache[mover_type] = NoTime,
                 !.last = [mover_type |-> mover_type, live |-> TRUE,
                           table |-> NoTime]]
         ELSE [movers EXCEPT
                 !.cache[mover_type] = utcnow,
                 !.cache_time = utcnow,
                 !.last = [mover_type |-> mover_type, live |-> TRUE,
                           table |-> utcnow]]
    /\ UNCHANGED <<service_vars, overview, fetcher, applied, built>>

\* DataFetcher.get_market_movers(mover_type); fetched: the page was
\* downloaded and holds a table with a symbol column
GetMarketMovers(mover_type, fetched) ==
    /\ movers' =
         IF /\ should_use_cached_market_movers(movers, utcnow)
            /\ movers.cache[mover_type] # NoTime
         THEN [movers EXCEPT
                 !.last = [mover_type |-> mover_type, live |-> FALSE,
                           table |-> movers.cache[mover_type]]]
         ELSE IF ~fetched
         THEN [movers EXCEPT
                 !.last = [mover_type |-> mover_type, live |-> TRUE,
                           table |-> NoTime]]
         ELSE [movers EXCEPT
                 !.cache[mover_type] = utcnow,
                 !.cache_time = utcnow,
                 !.last = [mover_type |-> mover_type, live |-> TRUE,
                           table |-> utcnow]]
    /\ UNCHANGED <<service_vars, overview, fetcher, applied, built>>

\* time passes between two calls
MoversWait ==
    /\ now + MoverMinutes <= MaxMoverTime
    /\ now' = now + MoverMinutes
    /\ UNCHANGED <<env, last_generation_state, generation_lock,
                   existing_portfolio_data, calls, jobs, worker, returned,
                   asked, overview, movers, fetcher, applied, built>>

\* ------------------ data_fetcher.py, the quote cache and the weekly cache
\* DataFetcher.cache maps "stock_info_<symbol>" to the dict get_stock_info
\* built; DataFetcher._weekly_cache maps "weekly:<SYMBOL>" to the closes.
\* A cache key is the pair of its prefix and the symbol part; an entry that
\* is not in the dict reads NoInfo (NoWeekly).

QuoteSymbols == {"AAPL", "TSLA", "tsla"}
Prices == {1, 2}
MaxRuns == 2
MaxSourceCalls == 3

NoInfo == [symbol |-> "", current_price |-> None, change_percent |-> None]
NoWeekly == 0

StockInfoKeys ==
    { <<"stock_info_", s>> : s \in QuoteSymbols }
        \cup { <<"stock_info:", upper(s)>> : s \in QuoteSymbols }
WeeklyKeys == { <<"weekly:", upper(s)>> : s \in QuoteSymbols }

\* what yfinance answers to one lookup: ticker.history raises (line 147),
\* or the price lookup raises or finds no price, or a price and a change
SourceAnswers ==
    { [kind |-> "raise", price |-> None, change |-> 0],
      [kind |-> "no_price", price |-> None, change |-> 0] }
        \cup { [kind |-> "price", price |-> p, change |-> c] :
                  p \in Prices, c \in {-1, 3} }

\* the closes of the last 7 days, told by a number; NoWeekly: no data
WeeklyAnswers == {NoWeekly, 1, 2}

\* DataFetcher.__init__ (lines 29-30)
NoFetcher ==
    [cache |-> [k \in StockInfoKeys |-> NoInfo],
     weekly_cache |-> [k \in WeeklyKeys |-> NoWeekly],
     runs |-> 1, source_calls |-> 0,
     last |-> [fn |-> "none", symbol |-> "", info |-> NoInfo,
               weekly |-> NoWeekly, source |-> FALSE]]

\* DataFetcher.get_current_price(symbol): [price, cache]
get_current_price(cache, symbol, answer) ==
    LET cache_key == <<"stock_info:", upper(symbol)>>
        price_value == IF answer.price = None \/ answer.price = 0
                       THEN None ELSE answer.price
    IN  IF cache[cache_key] # NoInfo /\ cache[cache_key].current_price # None
        THEN [price |-> cache[cache_key].current_price, cache |-> cache]
        ELSE IF answer.kind = "no_price"
        THEN [price |-> None, cache |-> cache]
        ELSE [price |-> price_value,
              cache |-> IF cache[cache_key] # NoInfo
                        THEN [cache EXCEPT ![cache_key].current_price = price_value]
                        ELSE cache]

\* the cache key of get_stock_info (line 106)
stock_info_cache_key(symbol) == <<"stock_info_", symbol>>

\* the cache test of get_stock_info (lines 109-111)
stock_info_cached(cache, symbol) ==
    LET cache_key == stock_info_cache_key(symbol)
    IN  cache[cache_key] # NoInfo /\ cache[cache_key].symbol = symbol

\* DataFetcher.get_stock_info(symbol): [info, cache, source]
stock_info(cache, symbol, answer) ==
    LET cache_key == stock_info_cache_key(symbol)
    IN  IF stock_info_cached(cache, symbol)
        THEN [info |-> cache[cache_key], cache |-> cache, source |-> FALSE]
        ELSE IF answer.kind = "raise"
        THEN LET fb == [symbol |-> symbol, current_price |-> None,
                        change_percent |-> 0]
             IN  [info |-> fb, cache |-> [cache EXCEPT ![cache_key] = fb],
                  source |-> TRUE]
        ELSE LET cp == get_current_price(cache, symbol, answer)
                 result == [symbol |-> symbol, current_price |-> cp.price,
                            change_percent |-> IF cp.price # None
                                               THEN answer.change ELSE 0]
             IN  [info |-> result,
                  cache |-> [cp.cache EXCEPT ![cache_key] = result],
                  source |-> TRUE]

\* get_stock_info(symbol) on the process's DataFetcher
GetStockInfo(symbol, answer) ==
    /\ fetcher.source_calls < MaxSourceCalls
    /\ LET r == stock_info(fetcher.cache, symbol, answer)
       IN  fetcher' =
             [fetcher EXCEPT
                !.cache = r.cache,
                !.source_calls = IF r.source THEN @ + 1 ELSE @,
                !.last = [fn |-> "get_stock_info", symbol |-> symbol,
                          info |-> r.info, weekly |-> NoWeekly,
                          source |-> r.source]]
    /\ UNCHANGED <<service_vars, overview, movers, applied, built>>

\* DataFetcher.get_weekly_performance(symbol) (lines 259-276): an answer
\* with no data is returned as None and not stored
GetWeeklyPerformance(symbol, answer) ==
    /\ fetcher.source_calls < MaxSourceCalls
    /\ LET cache_key == <<"weekly:", upper(symbol)>>
           hit == fetcher.weekly_cache[cache_key] # NoWeekly
       IN  fetcher' =
             [fetcher EXCEPT
                !.weekly_cache[cache_key] = IF hit THEN @ ELSE answer,
                !.source_calls = IF hit THEN @ ELSE @ + 1,
                !.last = [fn |-> "get_weekly_performance", symbol |-> symbol,
                          info |-> NoInfo,
                          weekly |-> IF hit THEN fetcher.weekly_cache[cache_key]
                                     ELSE answer,
                          source |-> ~hit]]
    /\ UNCHANGED <<service_vars, overview, movers, applied, built>>

\* the service's next regeneration: generate_full_report runs again on the
\* module's PortfolioManager (fastapi_app line 36), its DataFetcher as it is
GenerateFullReport ==
    /\ Service
    /\ fetcher.runs < MaxRuns
    /\ fetcher' = [fetcher EXCEPT !.runs = @ + 1, !.source_calls = 0,
                                  !.last = NoFetcher.last]
    /\ UNCHANGED <<service_vars, overview, movers, applied, built>>

\* the worker's next regeneration: run_report makes a new PortfolioManager
\* (generate_report line 117), and with it a new DataFetcher
RunReport ==
    /\ Worker
    /\ fetcher.runs < MaxRuns
    /\ fetcher' = [NoFetcher EXCEPT !.runs = fetcher.runs + 1]
    /\ UNCHANGED <<service_vars, overview, movers, applied, built>>

\* ------------------------- data_fetcher.py, the numeric normalizers alone
\* A str is the sequence of its characters.  A float is the exact decimal
\* m * 10^e with m not divisible by 10 (zero is m = 0, e = 0); NoNumber is
\* None.  The alphabet has no "e", "_", "inf" or "nan", which float() would
\* also read.

MaxLen == 4
Alphabet == {"0", "5", ".", ",", "-", "+", "%", "K", " "}
Digits == {"0", "1", "2", "3", "4", "5", "6", "7", "8", "9"}

RECURSIVE StringsUpTo(_)
StringsUpTo(n) ==
    IF n = 0 THEN { <<>> }
    ELSE LET shorter == StringsUpTo(n - 1)
         IN  shorter \cup { Append(s, c) : s \in shorter, c \in Alphabet }

\* the strings of the spec's examples and one string per multiplier
ExampleStrings ==
    { <<"1", ".", "2", "B">>, <<"1", "2", ",", "3", "4", "5", ".", "6">>,
      <<"+", "3", ".", "4", "%">>, <<"-", "-">>, <<"5", "M">>,
      <<"-", ".", "5", "T">>, <<"-", "0", ".", "5", "0", "%">> }

StrValue(s) == [kind |-> "str", num |-> 0, str |-> s]
NumValue(n) == [kind |-> "number", num |-> n, str |-> <<>>]
NoneValue == [kind |-> "None", num |-> 0, str |-> <<>>]

NormalizerInputs ==
    { NoneValue } \cup { NumValue(n) : n \in {-5, 0, 5, 50} }
        \cup { StrValue(s) : s \in StringsUpTo(MaxLen) \cup ExampleStrings }

NoNumber == [some |-> FALSE, m |-> 0, e |-> 0]

RECURSIVE Number(_, _)
Number(m, e) ==
    IF m = 0 THEN [some |-> TRUE, m |-> 0, e |-> 0]
    ELSE IF m % 10 = 0 THEN Number(m \div 10, e + 1)
    ELSE [some |-> TRUE, m |-> m, e |-> e]

digit(c) ==
    CASE c = "0" -> 0 [] c = "1" -> 1 [] c = "2" -> 2 [] c = "3" -> 3
      [] c = "4" -> 4 [] c = "5" -> 5 [] c = "6" -> 6 [] c = "7" -> 7
      [] c = "8" -> 8 [] OTHER -> 9

\* int() of a run of digits
RECURSIVE int_of(_)
int_of(s) ==
    IF s = <<>> THEN 0
    ELSE 10 * int_of(SubSeq(s, 1, Len(s) - 1)) + digit(s[Len(s)])

\* str.replace(",", "")
RECURSIVE replace_commas(_)
replace_commas(s) ==
    IF s = <<>> THEN <<>>
    ELSE IF Head(s) = "," THEN replace_commas(Tail(s))
    ELSE <<Head(s)>> \o replace_commas(Tail(s))

\* str.strip(), which float() applies to its argument
RECURSIVE strip(_)
strip(s) ==
    IF s = <<>> THEN <<>>
    ELSE IF Head(s) = " " THEN strip(Tail(s))
    ELSE IF s[Len(s)] = " " THEN strip(SubSeq(s, 1, Len(s) - 1))
    ELSE s

\* float(str): [ok, number]; ok = FALSE is ValueError
python_float(s) ==
    LET t == strip(s)
        signed == t # <<>> /\ t[1] \in {"+", "-"}
        body == IF signed THEN Tail(t) ELSE t
        dots == { i \in 1..Len(body) : body[i] = "." }
        point == IF dots = {} THEN Len(body) + 1
                 ELSE CHOOSE i \in dots : TRUE
        whole == SubSeq(body, 1, point - 1)
        fraction == SubSeq(body, point + 1, Len(body))
        wellformed ==
            /\ Cardinality(dots) <= 1
            /\ \A i \in 1..Len(body) : body[i] \in Digits \cup {"."}
            /\ \E i \in 1..Len(body) : body[i] \in Digits
        magnitude == int_of(whole \o fraction)
    IN  IF ~wellformed THEN [ok |-> FALSE, number |-> NoNumber]
        ELSE [ok |-> TRUE,
              number |-> Number(IF signed /\ t[1] = "-" THEN 0 - magnitude
                                ELSE magnitude,
                                0 - Len(fraction))]

\* multipliers (line 364), as powers of ten
multipliers == [c \in {"T", "B", "M", "K"} |->
                   CASE c = "T" -> 12 [] c = "B" -> 9 [] c = "M" -> 6
                     [] OTHER -> 3]

Returns(number) == [raised |-> FALSE, result |-> number]
Raises == [raised |-> TRUE, result |-> NoNumber]

\* DataFetcher._normalize_number (lines 356-376)
normalize_number(value) ==
    IF value.kind = "None" \/ value = StrValue(<<"-", "-">>)
    THEN Returns(NoNumber)
    ELSE IF value.kind = "number" THEN Returns(Number(value.num, 0))
    ELSE LET cleaned == replace_commas(value.str)
         IN  IF cleaned = <<>> THEN Raises      \* cleaned[-1]: IndexError
             ELSE LET suffix == cleaned[Len(cleaned)]
                  IN  IF suffix \in DOMAIN multipliers
                      THEN LET f == python_float(
                                        SubSeq(cleaned, 1, Len(cleaned) - 1))
                           IN  IF f.ok
                               THEN Returns(Number(f.number.m,
                                        f.number.e + multipliers[suffix]))
                               ELSE Returns(NoNumber)
                      ELSE LET f == python_float(cleaned)
                           IN  IF f.ok THEN Returns(f.number)
                               ELSE Returns(NoNumber)

\* the end of the run of digits that starts at i
RECURSIVE digits_end(_, _)
digits_end(s, i) ==
    IF i < Len(s) /\ s[i + 1] \in Digits THEN digits_end(s, i + 1) ELSE i

\* re.search(r"-?\d+(?:\.\d+)?", s): the leftmost match, or <<>>
re_search(s) ==
    LET starts == { i \in 1..Len(s) :
                      \/ s[i] \in Digits
                      \/ s[i] = "-" /\ i < Len(s) /\ s[i + 1] \in Digits }
    IN  IF starts = {} THEN <<>>
        ELSE LET i == CHOOSE k \in starts : \A j \in starts : k <= j
                 first == IF s[i] = "-" THEN i + 1 ELSE i
                 j == digits_end(s, first)
                 last == IF j + 1 < Len(s) /\ s[j + 1] = "."
                            /\ s[j + 2] \in Digits
                         THEN digits_end(s, j + 2) ELSE j
             IN  SubSeq(s, i, last)

\* DataFetcher._normalize_percent (lines 343-354)
normalize_percent(value) ==
    IF value.kind = "number" THEN Returns(Number(value.num, 0))
    ELSE IF value.kind = "str"
    THEN LET match == re_search(replace_commas(value.str))
         IN  IF match # <<>>
             THEN LET f == python_float(match)
                  IN  IF f.ok THEN Returns(f.number) ELSE Returns(NoNumber)
             ELSE Returns(NoNumber)
    ELSE Returns(NoNumber)

NoApplied ==
    [fn |-> "none", value |-> NoneValue, result |-> NoNumber,
     raised |-> FALSE]

\* _normalize_number(value) on the input drawn at the start
NormalizeNumber ==
    /\ applied.fn # "number"
    /\ LET r == normalize_number(applied.value)
       IN  applied' = [fn |-> "number", value |-> applied.value,
                       result |-> r.result, raised |-> r.raised]
    /\ UNCHANGED <<service_vars, overview, movers, fetcher, built>>

\* _normalize_percent(value) on the input drawn at the start
NormalizePercent ==
    /\ applied.fn # "percent"
    /\ LET r == normalize_percent(applied.value)
       IN  applied' = [fn |-> "percent", value |-> applied.value,
                       result |-> r.result, raised |-> r.raised]
    /\ UNCHANGED <<service_vars, overview, movers, fetcher, built>>

\* ---------------- generate_report.py, the trading window and its parsers
\* PORTFOLIO_TRADING_WINDOW is blank, a word, or "<start>-<end>", where a
\* time string is told by the minute of the day that strptime("%H:%M")
\* reads from it, InvalidTime when strptime raises.  PORTFOLIO_TRADING_DAYS
\* is a list of comma-separated chunks: blank, an integer, a range "a-b",
\* or text that int() rejects.

InvalidTime == -1
TimeStrings == {120, 570, 960, 1320, InvalidTime}

BlankWindow == [kind |-> "blank", word |-> "", start |-> 0, end |-> 0]
WordWindow(w) == [kind |-> "word", word |-> w, start |-> 0, end |-> 0]
RangeWindow(a, b) == [kind |-> "range", word |-> "", start |-> a, end |-> b]

WindowRaws ==
    { BlankWindow, WordWindow("siempre"), WordWindow("ALWAYS"),
      WordWindow("closed") }
        \cup { RangeWindow(a, b) : a \in {570, 1320, InvalidTime},
                                   b \in {120, 960, InvalidTime} }
        \cup { RangeWindow(570, 570) }

BlankChunk == [kind |-> "blank", a |-> 0, b |-> 0]
BadChunk == [kind |-> "bad", a |-> 0, b |-> 0]
IntChunk(a) == [kind |-> "int", a |-> a, b |-> 0]
RangeChunk(a, b) == [kind |-> "range", a |-> a, b |-> b]

DaysRaws ==
    { <<>>, <<BlankChunk>>, <<BadChunk>>, <<IntChunk(7)>>,
      <<RangeChunk(0, 4)>>, <<RangeChunk(4, 0)>>, <<RangeChunk(5, 8)>>,
      <<IntChunk(5), IntChunk(6)>>, <<IntChunk(2), BadChunk>>,
      <<RangeChunk(7, 9), BlankChunk>>, <<RangeChunk(0, 1), IntChunk(4)>> }

Weekdays == 0..6
WindowMinutes == {0, 119, 120, 121, 569, 570, 571, 959, 960, 961, 1319,
                  1320, 1321, 1439}

\* TRADING_WINDOW / TRADING_DAYS that are None
NoWindow == [present |-> FALSE, start |-> 0, end |-> 0]
NoDays == [present |-> FALSE, days |-> {}]

\* str.lower()
lower(word) == IF word = "ALWAYS" THEN "always" ELSE word

\* generate_report._parse_trading_window
parse_trading_window(window) ==
    IF window.kind = "blank" THEN NoWindow
    ELSE IF window.kind = "word"
    THEN IF lower(window.word) \in {"siempre", "always"} THEN NoWindow
         ELSE NoWindow      \* no "-": the unpacking raises, caught at 42
    ELSE IF window.start = InvalidTime \/ window.end = InvalidTime
    THEN NoWindow
    ELSE [present |-> TRUE, start |-> window.start, end |-> window.end]

\* one chunk of PORTFOLIO_TRADING_DAYS (lines 57-74)
chunk_days(chunk) ==
    CASE chunk.kind = "int" -> {chunk.a}
      [] chunk.kind = "range" ->
            IF chunk.a > chunk.b THEN chunk.b..chunk.a ELSE chunk.a..chunk.b
      [] OTHER -> {}

\* generate_report._parse_trading_days
parse_trading_days(raw_days) ==
    LET days == UNION { chunk_days(raw_days[i]) : i \in 1..Len(raw_days) }
        valid == { d \in days : 0 <= d /\ d <= 6 }
    IN  IF valid = {} THEN NoDays ELSE [present |-> TRUE, days |-> valid]

\* a window test that takes a window across midnight like any other
within_window_no_wrap(window, days, weekday, minute) ==
    IF ~window.present /\ ~days.present THEN TRUE
    ELSE IF days.present /\ weekday \notin days.days THEN FALSE
    ELSE IF ~window.present THEN TRUE
    ELSE window.start <= minute /\ minute <= window.end

\* generate_report._within_trading_window under TRADING_WINDOW = window
\* and TRADING_DAYS = days
within_window(window, days, weekday, minute) ==
    IF ~window.present /\ ~days.present THEN TRUE
    ELSE IF days.present /\ weekday \notin days.days THEN FALSE
    ELSE IF ~window.present THEN TRUE
    ELSE IF window.start <= window.end
    THEN window.start <= minute /\ minute <= window.end
    ELSE minute >= window.start \/ minute <= window.end

WindowInput(w, d, weekday, minute) ==
    [window |-> w, days |-> d, weekday |-> weekday, minute |-> minute]

\* _within_trading_window(reference) in a process started with the
\* environment drawn at the start
WithinTradingWindow ==
    /\ applied.fn = "none"
    /\ LET v == applied.value
       IN  applied' =
             [applied EXCEPT
                !.fn = "within_trading_window",
                !.result = within_window(parse_trading_window(v.window),
                                         parse_trading_days(v.days),
                                         v.weekday, v.minute)]
    /\ UNCHANGED <<service_vars, overview, movers, fetcher, built>>

\* fastapi_app._is_market_open(now) at the same instant
IsMarketOpen ==
    /\ applied.fn = "none"
    /\ applied' =
         [applied EXCEPT
            !.fn = "is_market_open",
            !.result = is_market_open(applied.value.weekday,
                                      applied.value.minute)]
    /\ UNCHANGED <<service_vars, overview, movers, fetcher, built>>

\* ---------------------------------------------------------- specification

\* a report persisted by an earlier run of the process, 5 minutes old
InitialReports ==
    { NoReport } \cup
    { [generated_at |-> tz - 5, period |-> DEFAULT_PERIOD] : tz \in TzOffsets }

\* module import, then on_startup's initialize_last_generation()
Init ==
    /\ now = 0
    /\ env \in { [program |-> "service", tz |-> tz, weekday |-> i.weekday,
                  minute0 |-> i.minute0] : tz \in TzOffsets, i \in ServiceInstants }
             \cup
                { [program |-> "worker", tz |-> 0, weekday |-> i.weekday,
                  minute0 |-> i.minute0] : i \in WorkerInstants }
    /\ existing_portfolio_data \in
           { r \in InitialReports :
               \/ r = NoReport
               \/ Service /\ r.generated_at = env.tz - 5 }
    /\ last_generation_state =
           load_report_from_disk(
               [timestamp |-> NoTime, period |-> NoPeriod, in_progress |-> FALSE],
               existing_portfolio_data)
    /\ generation_lock = [locked |-> FALSE, waiters |-> <<>>, woken |-> FALSE]
    /\ calls = [c \in Callers |-> IdleCall]
    /\ jobs = [c \in Callers |-> NoJob]
    /\ worker = [alive |-> TRUE, last |-> "none"]
    /\ returned = NoReturn
    /\ asked = NoAsk
    /\ overview = NoOverview
    /\ movers = NoMovers
    /\ fetcher = NoFetcher
    /\ applied = NoApplied
    /\ built = NoBuilt

Next ==
    \/ \E c \in Triggers, f \in BOOLEAN : MaybeGenerate(c, DEFAULT_PERIOD, f)
    \/ \E c \in Clients, p \in Periods, f \in BOOLEAN, y \in SymbolInputs :
           ProcessPortfolio(c, p, f, y)
    \/ \E c \in Callers : Resume(c)
    \/ \E c \in Callers : BuildDone(c)
    \/ \E c \in Callers : BuildFail(c)
    \/ \E c \in Callers : CancelBuilding(c)
    \/ \E c \in Callers : JobStamp(c)
    \/ \E c \in Callers : JobRaise(c)
    \/ \E c \in Callers, saved \in BOOLEAN : JobSave(c, saved)
    \/ GetReport
    \/ Health
    \/ Tick
    \/ \E raised \in BOOLEAN : WorkerTick(raised)

Spec == Init /\ [][Next]_vars

\* _should_regenerate over every RegenerationState and clock reading
Stamps == (0 - MaxTime)..MaxTime

InitShould ==
    /\ now \in 0..MaxTime
    /\ env = [program |-> "service", tz |-> 0, weekday |-> Friday1540.weekday,
              minute0 |-> Friday1540.minute0]
    /\ last_generation_state \in
           [timestamp : {NoTime} \cup Stamps,
            period : Periods \cup {NoPeriod},
            in_progress : BOOLEAN]
    /\ existing_portfolio_data = NoReport
    /\ generation_lock = [locked |-> FALSE, waiters |-> <<>>, woken |-> FALSE]
    /\ calls = [c \in Callers |-> IdleCall]
    /\ jobs = [c \in Callers |-> NoJob]
    /\ worker = [alive |-> TRUE, last |-> "none"]
    /\ returned = NoReturn
    /\ asked = NoAsk
    /\ overview = NoOverview
    /\ movers = NoMovers
    /\ fetcher = NoFetcher
    /\ applied = NoApplied
    /\ built = NoBuilt

NextShould == \E p \in Periods : Ask(p)

SpecShould == InitShould /\ [][NextShould]_vars

\* --------------------------------------- get_market_overview on its own

\* the service at rest
InitIdle ==
    /\ now = 0
    /\ env = [program |-> "service", tz |-> 0, weekday |-> Friday1540.weekday,
              minute0 |-> Friday1540.minute0]
    /\ last_generation_state =
           [timestamp |-> NoTime, period |-> NoPeriod, in_progress |-> FALSE]
    /\ existing_portfolio_data = NoReport
    /\ generation_lock = [locked |-> FALSE, waiters |-> <<>>, woken |-> FALSE]
    /\ calls = [c \in Callers |-> IdleCall]
    /\ jobs = [c \in Callers |-> NoJob]
    /\ worker = [alive |-> TRUE, last |-> "none"]
    /\ returned = NoReturn
    /\ asked = NoAsk

\* the first call: nothing is persisted yet
InitOverview ==
    /\ InitIdle
    /\ movers = NoMovers
    /\ fetcher = NoFetcher
    /\ applied = NoApplied
    /\ built = NoBuilt
    /\ overview \in
         { [NoOverview EXCEPT !.pc = "called", !.n = 1, !.watchlist = w,
                              !.tables = t, !.quotes = q, !.top_n = k,
                              !.use_persisted = u] :
             w \in WatchlistInputs, t \in [MoverTypes -> TableInputs],
             q \in QuoteInputs, k \in TopNs, u \in BOOLEAN }

NextOverview ==
    \/ EnterOverview
    \/ WatchlistItem
    \/ MoversTable
    \/ Respond
    \/ SaveOverview
    \/ \E k \in TopNs, u \in BOOLEAN : CallOverview(k, u)

SpecOverview == InitOverview /\ [][NextOverview]_vars

\* --------------------------------------------- get_market_movers on its own

InitMovers ==
    /\ InitIdle
    /\ overview = NoOverview
    /\ movers = NoMovers
    /\ fetcher = NoFetcher
    /\ applied = NoApplied
    /\ built = NoBuilt

NextMovers ==
    \/ \E t \in MoverTypes, fetched \in BOOLEAN : GetMarketMovers(t, fetched)
    \/ MoversWait

SpecMovers == InitMovers /\ [][NextMovers]_vars

\* ------------------------------------------------ the quote caches alone

InitQuotes ==
    /\ now = 0
    /\ env \in { [program |-> p, tz |-> 0, weekday |-> Friday1540.weekday,
                  minute0 |-> Friday1540.minute0] : p \in {"service", "worker"} }
    /\ last_generation_state =
           [timestamp |-> NoTime, period |-> NoPeriod, in_progress |-> FALSE]
    /\ existing_portfolio_data = NoReport
    /\ generation_lock = [locked |-> FALSE, waiters |-> <<>>, woken |-> FALSE]
    /\ calls = [c \in Callers |-> IdleCall]
    /\ jobs = [c \in Callers |-> NoJob]
    /\ worker = [alive |-> TRUE, last |-> "none"]
    /\ returned = NoReturn
    /\ asked = NoAsk
    /\ overview = NoOverview
    /\ movers = NoMovers
    /\ fetcher = NoFetcher
    /\ applied = NoApplied
    /\ built = NoBuilt

NextQuotes ==
    \/ \E s \in QuoteSymbols, a \in SourceAnswers : GetStockInfo(s, a)
    \/ \E s \in QuoteSymbols, a \in WeeklyAnswers : GetWeeklyPerformance(s, a)
    \/ GenerateFullReport
    \/ RunReport

SpecQuotes == InitQuotes /\ [][NextQuotes]_vars

\* ------------------------------------------------ the normalizers alone

InitNormalize ==
    /\ InitIdle
    /\ overview = NoOverview
    /\ movers = NoMovers
    /\ fetcher = NoFetcher
    /\ applied \in { [NoApplied EXCEPT !.value = v] : v \in NormalizerInputs }
    /\ built = NoBuilt

NextNormalize ==
    \/ NormalizeNumber
    \/ NormalizePercent

SpecNormalize == InitNormalize /\ [][NextNormalize]_vars

\* -------------------------------------------- the trading window alone

InitWindow ==
    /\ InitIdle
    /\ overview = NoOverview
    /\ movers = NoMovers
    /\ fetcher = NoFetcher
    /\ applied \in
         { [fn |-> "none", value |-> WindowInput(w, d, wd, m),
            result |-> FALSE, raised |-> FALSE] :
             w \in WindowRaws, d \in DaysRaws, wd \in Weekdays,
             m \in WindowMinutes }
    /\ built = NoBuilt

NextWindow ==
    \/ WithinTradingWindow
    \/ IsMarketOpen

SpecWindow == InitWindow /\ [][NextWindow]_vars

\* ------------------------------- api_service.py, the legacy service alone
\* A third program with its own process_portfolio.  Its module globals
\* last_generation and generation_lock are held in last_generation_state
\* and generation_lock; its timestamps are readings of datetime.now(), the
\* local clock, taken and compared on the same host.
\*   exits of process_portfolio: 81, 97, 115 return the persisted report;
\*   144 return the new report; 155 HTTP 500; 131 cancelled at the
\*   executor await

Legacy == env.program = "legacy"

\* the requests in flight at a time
LegacyClients == {"b", "c"}

\* api_service.should_regenerate (lines 42-53)
api_should_regenerate(s, local) ==
    IF s.in_progress THEN FALSE
    ELSE IF s.timestamp = NoTime THEN TRUE
    ELSE local - s.timestamp > REFRESH_INTERVAL

ApiCanCall(c) == Legacy /\ calls[c].pc = "idle" /\ jobs[c].phase = "none"

\* lines 109-131: the second check, then the build is submitted
api_process_portfolio_guarded(c, call, s, lock) ==
    IF /\ ~call.force
       /\ ~api_should_regenerate(s, localnow)
       /\ existing_portfolio_data # NoReport
    THEN LeaveGuarded(c, call, s, lock, 115)
    ELSE StartBuild(c, call, s, lock)

\* POST /process/{user_id} up to its first await or its return
\* (lines 68-131)
ApiProcessPortfolio(c, period, force) ==
    /\ ApiCanCall(c)
    /\ LET call == NewCall("api_process_portfolio", period, force)
           s == last_generation_state
           data == existing_portfolio_data
       IN  IF s.in_progress /\ ~force /\ data # NoReport
           THEN ReturnEarly(c, call, s, 81)
           ELSE IF ~force /\ ~api_should_regenerate(s, localnow)
                   /\ data # NoReport
           THEN ReturnEarly(c, call, s, 97)
           ELSE IF lock_is_free(generation_lock)
           THEN api_process_portfolio_guarded(c, call, s, generation_lock)
           ELSE /\ generation_lock' =
                      [generation_lock EXCEPT !.waiters = Append(@, c)]
                /\ calls' = [calls EXCEPT ![c] = [call EXCEPT !.pc = "waiting"]]
                /\ last_generation_state' = s
                /\ jobs' = jobs
                /\ returned' = NoReturn
                /\ built' = built
    /\ UNCHANGED <<now, env, existing_portfolio_data, worker, asked,
                   overview, movers, fetcher, applied>>

\* a queued caller whose lock future was resolved takes the lock
ApiResume(c) ==
    /\ Legacy
    /\ calls[c].pc = "waiting"
    /\ generation_lock.woken
    /\ generation_lock.waiters # <<>>
    /\ Head(generation_lock.waiters) = c
    /\ api_process_portfolio_guarded(c, calls[c], last_generation_state,
           [locked |-> TRUE, waiters |-> Tail(generation_lock.waiters),
            woken |-> FALSE])
    /\ UNCHANGED <<now, env, existing_portfolio_data, worker, asked,
                   overview, movers, fetcher, applied>>

\* the executor future resolved with the report (lines 137-150)
ApiBuildDone(c) ==
    /\ Legacy
    /\ calls[c].pc = "building"
    /\ jobs[c].phase = "returned"
    /\ last_generation_state' =
           [timestamp |-> localnow, period |-> calls[c].period,
            in_progress |-> FALSE]
    /\ calls' = [calls EXCEPT ![c] = IdleCall]
    /\ returned' = Return(calls[c], 144)
    /\ generation_lock' = lock_release(generation_lock)
    /\ jobs' = [jobs EXCEPT ![c] = NoJob]
    /\ UNCHANGED <<now, env, existing_portfolio_data, worker, asked,
                   overview, movers, fetcher, applied, built>>

\* the executor future resolved with the builder's exception: the handler
\* of "except Exception" clears in_progress and answers HTTP 500
\* (lines 152-155)
ApiBuildFail(c) ==
    /\ Legacy
    /\ calls[c].pc = "building"
    /\ jobs[c].phase = "raised"
    /\ last_generation_state' =
           [last_generation_state EXCEPT !.in_progress = FALSE]
    /\ calls' = [calls EXCEPT ![c] = IdleCall]
    /\ returned' = Return(calls[c], 155)
    /\ generation_lock' = lock_release(generation_lock)
    /\ jobs' = [jobs EXCEPT ![c] = NoJob]
    /\ UNCHANGED <<now, env, existing_portfolio_data, worker, asked,
                   overview, movers, fetcher, applied, built>>

\* the request's task is cancelled while it awaits the executor future.
\* There is no finally clause: "except Exception" takes CancelledError only
\* where it is an Exception (Python 3.7); from Python 3.8 on it is a
\* BaseException and passes the handler with in_progress left as it is.
\* The lock is released on the way out of "async with"; the executor thread
\* keeps running.
ApiCancelBuilding(c, caught) ==
    /\ Legacy
    /\ calls[c].pc = "building"
    /\ Cardinality(Orphans) < MaxOrphans
    /\ last_generation_state' =
           IF caught
           THEN [last_generation_state EXCEPT !.in_progress = FALSE]
           ELSE last_generation_state
    /\ calls' = [calls EXCEPT ![c] = IdleCall]
    /\ returned' = Return(calls[c], IF caught THEN 155 ELSE 131)
    /\ generation_lock' = lock_release(generation_lock)
    /\ jobs' = [jobs EXCEPT ![c] =
                   IF @.phase \in {"returned", "raised"} THEN NoJob ELSE @]
    /\ UNCHANGED <<now, env, existing_portfolio_data, worker, asked,
                   overview, movers, fetcher, applied, built>>

\* module import: nothing is read from the persisted report
InitLegacy ==
    /\ now = 0
    /\ env \in { [program |-> "legacy", tz |-> tz,
                  weekday |-> Friday1540.weekday,
                  minute0 |-> Friday1540.minute0] : tz \in TzOffsets }
    /\ existing_portfolio_data \in
           { r \in InitialReports :
               r = NoReport \/ r.generated_at = env.tz - 5 }
    /\ last_generation_state =
           [timestamp |-> NoTime, period |-> NoPeriod, in_progress |-> FALSE]
    /\ generation_lock = [locked |-> FALSE, waiters |-> <<>>, woken |-> FALSE]
    /\ calls = [c \in Callers |-> IdleCall]
    /\ jobs = [c \in Callers |-> NoJob]
    /\ worker = [alive |-> TRUE, last |-> "none"]
    /\ returned = NoReturn
    /\ asked = NoAsk
    /\ overview = NoOverview
    /\ movers = NoMovers
    /\ fetcher = NoFetcher
    /\ applied = NoApplied
    /\ built = NoBuilt

NextLegacy ==
    \/ \E c \in LegacyClients, p \in Periods, f \in BOOLEAN :
           ApiProcessPortfolio(c, p, f)
    \/ \E c \in LegacyClients : ApiResume(c)
    \/ \E c \in LegacyClients : ApiBuildDone(c)
    \/ \E c \in LegacyClients : ApiBuildFail(c)
    \/ \E c \in LegacyClients, caught \in BOOLEAN : ApiCancelBuilding(c, caught)
    \/ \E c \in LegacyClients : JobStamp(c)
    \/ \E c \in LegacyClients : JobRaise(c)
    \/ \E c \in LegacyClients, saved \in BOOLEAN : JobSave(c, saved)
    \/ Tick

SpecLegacy == InitLegacy /\ [][NextLegacy]_vars

\* ------------------------------------- the callers of the service, to the end
\* The event loop runs every task that is ready, and every builder
\* invocation comes to its end: a waiter whose lock future was resolved
\* resumes, an executor future that resolved is taken up, a running builder
\* returns or raises.  The clock stands still: no guard of these steps waits
\* for it.

InitTermination ==
    /\ Init
    /\ Service
    /\ env.tz = 0

NextTermination ==
    \/ \E c \in Triggers, f \in BOOLEAN : MaybeGenerate(c, DEFAULT_PERIOD, f)
    \/ \E c \in Clients, p \in Periods, f \in BOOLEAN, y \in SymbolInputs :
           ProcessPortfolio(c, p, f, y)
    \/ \E c \in Callers : Resume(c)
    \/ \E c \in Callers : BuildDone(c)
    \/ \E c \in Callers : BuildFail(c)
    \/ \E c \in Callers : CancelBuilding(c)
    \/ \E c \in Callers : JobStamp(c)
    \/ \E c \in Callers : JobRaise(c)
    \/ \E c \in Callers, saved \in BOOLEAN : JobSave(c, saved)

Scheduling ==
    \A c \in Callers :
        /\ WF_vars(Resume(c))
        /\ WF_vars(BuildDone(c))
        /\ WF_vars(BuildFail(c))
        /\ WF_vars(JobStamp(c) \/ JobRaise(c))
        /\ WF_vars(\E saved \in BOOLEAN : JobSave(c, saved))

SpecTermination ==
    InitTermination /\ [][NextTermination]_vars /\ Scheduling

\* ------------------------------------------------------------------ claims

Executing == { c \in Callers : jobs[c].phase \in {"running", "stamped"} }
InProgress == last_generation_state.in_progress
Persisted == existing_portfolio_data # NoReport
Stale(period) == should_regenerate(last_generation_state, period, utcnow)

\* C1: of the non-forced maybe_generate calls for one period issued together
\* while regeneration is warranted, one builds: a call that waited for the
\* guard while another of them built the report does not build again.
C1_OneBuildPerCohort ==
    [][\A c \in Callers :
          calls[c].pc = "waiting" /\ calls[c].overtaken
              => calls'[c].pc # "building"]_vars

\* C2: at most one invocation of the report builder is executing, also after
\* the caller that started a build was cancelled.
C2_AtMostOneBuilderExecuting == Cardinality(Executing) <= 1

\* C3: _should_regenerate(requested_period) is false while in_progress;
\* otherwise true without a timestamp; otherwise true when the recorded
\* period differs from the requested one; otherwise true exactly when more
\* than 15 minutes have elapsed since the timestamp.
C3_ShouldRegenerate ==
    asked.period # NoPeriod =>
        LET s == last_generation_state
        IN  asked.result =
              ( /\ ~s.in_progress
                /\ \/ s.timestamp = NoTime
                   \/ s.period \notin {NoPeriod, asked.period}
                   \/ now - s.timestamp > 15 )

\* the threshold itself: exactly 15 minutes elapsed, same period, answer no
C3_Witness ==
    /\ asked.period # NoPeriod
    /\ ~last_generation_state.in_progress
    /\ last_generation_state.period = asked.period
    /\ last_generation_state.timestamp # NoTime
    /\ now - last_generation_state.timestamp = 15
    /\ ~asked.result

\* C4: with the market closed, maybe_generate(force=False) returns None with
\* no build started, the lock untouched and last_generation_state unchanged,
\* however stale the last report is.
C4_ClosedMarketSkips ==
    [][\A c \in Triggers :
          ~MarketOpen /\ MaybeGenerate(c, DEFAULT_PERIOD, FALSE)
              => /\ returned'.exit = 116
                 /\ calls'[c].pc = "idle"
                 /\ UNCHANGED <<last_generation_state, generation_lock, jobs,
                                existing_portfolio_data>>]_vars

\* a non-forced call just returned None on a closed market, the report stale
C4_Witness ==
    /\ returned.exit = 116
    /\ ~returned.force
    /\ ~MarketOpen
    /\ ~InProgress
    /\ Stale(DEFAULT_PERIOD)
    /\ Executing = {}

\* C5: a forced call builds whatever the market hours, the staleness and the
\* build in progress, and the builds of forced calls are serialized: when a
\* forced call starts its build no other invocation of the builder is
\* executing.
C5_ForcedBuildsSerialized ==
    [][\A c \in Callers :
          calls'[c].force /\ calls[c].pc # "building"
                          /\ calls'[c].pc = "building"
              => Executing = {}]_vars

\* C6: when the builder raises, in_progress is cleared, the caller gets the
\* failure, and timestamp and period are what they were when the build
\* started: from the start of a build until its builder has produced the
\* report or the failure has been handled, no step changes them.
C6_FailureLeavesStateAsBefore ==
    [][\A c \in Callers :
          calls[c].pc = "building" /\ jobs[c].phase \in {"running", "raised"}
              => /\ last_generation_state'.timestamp
                       = last_generation_state.timestamp
                 /\ last_generation_state'.period
                       = last_generation_state.period
                 /\ BuildFail(c)
                       => /\ ~last_generation_state'.in_progress
                          /\ returned'.exit \in ExitsFailed]_vars

\* C7: a non-forced POST /process that finds in_progress set and a persisted
\* report returns that report in the same step: it does not queue for the
\* lock and starts no build.
C7_InProgressServesPersisted ==
    [][\A c \in Clients, p \in Periods, y \in SymbolInputs :
          InProgress /\ Persisted /\ ProcessPortfolio(c, p, FALSE, y)
              => /\ returned'.exit \in {265, 276}
                 /\ calls'[c].pc = "idle"
                 /\ UNCHANGED <<generation_lock, jobs,
                                existing_portfolio_data>>]_vars

\* a non-forced request was just answered from the persisted report while a
\* build is running
C7_Witness ==
    /\ returned.exit = 265
    /\ ~returned.force
    /\ InProgress
    /\ Persisted
    /\ Executing # {}

\* C8 as stated: POST /process answers with an error only when no report was
\* ever persisted.
C8_ErrorOnlyWithoutReport ==
    (returned.exit = 330 /\ ~returned.force) => ~Persisted

\* C8 as the code has it: POST /process answers HTTP 500 exactly when the
\* build it started itself raised, a persisted report notwithstanding; the
\* persisted report is the answer only when the request starts no build.
C8_ErrorIffOwnBuildFailed ==
    [][/\ \A c \in Callers :
            ( /\ calls[c].op = "process_portfolio"
              /\ calls[c].pc = "building" /\ jobs[c].phase = "raised"
              /\ calls'[c].pc = "idle" )
                => returned'.exit \in {330, 309}
       /\ returned'.exit = 330
            => \E c \in Callers :
                  /\ calls[c].op = "process_portfolio"
                  /\ calls[c].pc = "building" /\ jobs[c].phase = "raised"
                  /\ calls'[c].pc = "idle"
       /\ returned'.exit \in ExitsCached
            => /\ Persisted
               /\ \A c \in Callers :
                     calls[c].pc = "building" => calls'[c].pc = "building"]_vars

\* a non-forced request was just answered HTTP 500 though a report is
\* persisted
C8_Witness ==
    /\ returned.exit = 330
    /\ ~returned.force
    /\ Persisted
    /\ ~InProgress

\* C9: after a scheduled tick whose build failed, in_progress is false and
\* the lock is released, and a tick that finds the market open and the
\* report stale goes for the lock again; in the worker, a failed run leaves
\* the loop running and the next turn inside the window runs the report.
C9_FailedTickDoesNotStop ==
    [][/\ returned'.exit = 134
            => ~last_generation_state'.in_progress /\ ~generation_lock'.locked
       /\ \A c \in Triggers :
            ( MarketOpen /\ Stale(DEFAULT_PERIOD)
              /\ MaybeGenerate(c, DEFAULT_PERIOD, FALSE) )
                => IF lock_is_free(generation_lock)
                   THEN calls'[c].pc = "building" /\ jobs'[c].phase = "running"
                   ELSE calls'[c].pc = "waiting"
       /\ \A raised \in BOOLEAN :
            WorkerTick(raised)
                => /\ worker'.alive
                   /\ within_trading_window(env.weekday, env.minute0 + now)
                          => worker'.last \in {"ok", "failed"}]_vars

\* a scheduled tick's build just failed; the market is open, the report is
\* stale and the lock is free for the next tick
C9_Witness ==
    /\ returned.exit = 134
    /\ ~returned.force
    /\ MarketOpen
    /\ Stale(DEFAULT_PERIOD)
    /\ lock_is_free(generation_lock)

C11_GeneratedAtNeverMovesBack ==
    [][(existing_portfolio_data # NoReport
          /\ existing_portfolio_data' # existing_portfolio_data)
          => existing_portfolio_data'.generated_at
                 >= existing_portfolio_data.generated_at]_vars

\* C12: GET /health and the reads of the persisted report are answered in
\* every state of the service, a build in progress or not, and answering
\* them leaves the lock, its queue, the callers and the build jobs alone;
\* the builder's steps are taken by the executor thread, never by a handler.
C12_ReadsServedDuringBuild ==
    [][/\ Service => (ENABLED GetReport) /\ (ENABLED Health)
       /\ (returned'.exit \in {212, 217} \/ Health)
            => UNCHANGED <<generation_lock, calls, jobs,
                           existing_portfolio_data>>
       /\ \A c \in Callers :
            ( jobs[c].phase \in {"running", "stamped"}
              /\ jobs'[c].phase # jobs[c].phase )
                => calls'[c] = calls[c] \/ returned'.exit \in {129, 309}]_vars

\* a read of the persisted report was just answered while a build runs and
\* another caller is queued for the lock
C12_Witness ==
    /\ returned.exit = 217
    /\ InProgress
    /\ Executing # {}
    /\ generation_lock.locked
    /\ generation_lock.waiters # <<>>

\* C13: last_generation_state changes only in a step of the caller that
\* holds generation_lock (the one that starts, ends or abandons a build).
C13_StateChangesOnlyUnderLock ==
    [][last_generation_state' # last_generation_state
          => \E c \in Callers :
                /\ calls'[c] # calls[c]
                /\ calls[c].pc = "building" \/ calls'[c].pc = "building"]_vars

NoDuplicates(list) ==
    \A i, j \in 1..Len(list) : i # j => list[i].symbol # list[j].symbol

AllFetchesFailed == \A t \in MoverTypes : ~overview.tables[t].fetched

\* the symbols the watchlist loop takes up, and where their quotes send them
WatchSymbols ==
    { overview.watchlist[i] : i \in 1..Len(overview.watchlist) } \ {""}
Change(symbol) == get_stock_info(overview.quotes, symbol).change_percent
Positives == { s \in WatchSymbols : Change(s) # None /\ Change(s) > 0 }
Negatives == { s \in WatchSymbols : Change(s) # None /\ Change(s) < 0 }

Computed == overview.pc = "done" /\ ~overview.reused

\* C14: in the overview that get_market_overview returns, computed or taken
\* from the persisted report, none of the five lists has a symbol twice.
C14_NoSymbolTwice ==
    overview.pc = "done"
        => \A k \in Sections : NoDuplicates(overview.response[k])

\* a persisted overview was reused; it was computed from a watchlist and two
\* mover tables that share symbols
C14_Witness ==
    /\ overview.pc = "done"
    /\ overview.reused
    /\ overview.watchlist # <<>>
    /\ overview.tables["gainers"] = RowsA
    /\ overview.tables["active"] = RowsB
    /\ Len(overview.response.all) >= 3

SizesCapped(response, top_n) ==
    /\ Len(response.all) <= 2 * top_n
    /\ Len(response.gainers) <= top_n
    /\ Len(response.losers) <= top_n
    /\ Len(response.most_active) <= top_n
    /\ Len(response.most_viewed) <= top_n

\* C15 as stated: every result has at most 2*top_n entries in all and at
\* most top_n in each other list.
C15_SizesCapped ==
    overview.pc = "done" => SizesCapped(overview.response, overview.top_n)

\* C15 as the code has it: a computed result is cut to 2*top_n and top_n; a
\* reused persisted overview is returned as it was stored.
C15_ComputedSizesCapped ==
    /\ Computed => SizesCapped(overview.response, overview.top_n)
    /\ (overview.pc = "done" /\ overview.reused)
           => overview.response = overview.source_data.market_overview

\* a computed result whose all and gainers lists were cut
C15_Witness ==
    /\ Computed
    /\ Len(overview.watchlist) > 2 * overview.top_n
    /\ Len(overview.market_data_map.gainers) > overview.top_n
    /\ Len(overview.response.gainers) = overview.top_n
    /\ Len(overview.response.all) = 2 * overview.top_n

PayloadsFor(symbol) ==
    { [symbol |-> symbol, current_price |-> a, change_percent |-> b,
       volume |-> c] : a \in {None, 10}, b \in {None, 10},
                       c \in {None, 10} }

AllHoldsWatchlist ==
    /\ symbols_of(overview.response.all) \subseteq WatchSymbols
    /\ Len(overview.response.all)
           = Min(2 * overview.top_n, Cardinality(WatchSymbols))

\* C17 as stated: with every mover fetch failed, gainers is exactly the
\* watchlist symbols with a positive change, losers exactly those with a
\* negative change, most_active is empty and all holds the watchlist up to
\* 2*top_n.
C17_WatchlistAloneRoutesBySign ==
    (Computed /\ AllFetchesFailed)
        => /\ symbols_of(overview.response.gainers) = Positives
           /\ symbols_of(overview.response.losers) = Negatives
           /\ overview.response.most_active = <<>>
           /\ AllHoldsWatchlist

\* C17 as the code has it: gainers is the top_n watchlist symbols with the
\* largest positive change, losers the top_n with the most negative change.
C17_WatchlistAloneRoutesBySignUpToTopN ==
    (Computed /\ AllFetchesFailed)
        => LET gainers == symbols_of(overview.response.gainers)
               losers == symbols_of(overview.response.losers)
           IN  /\ gainers \subseteq Positives
               /\ Len(overview.response.gainers)
                      = Min(overview.top_n, Cardinality(Positives))
               /\ \A s \in Positives \ gainers, t \in gainers :
                      Change(s) <= Change(t)
               /\ losers \subseteq Negatives
               /\ Len(overview.response.losers)
                      = Min(overview.top_n, Cardinality(Negatives))
               /\ \A s \in Negatives \ losers, t \in losers :
                      Change(s) >= Change(t)
               /\ overview.response.most_active = <<>>
               /\ AllHoldsWatchlist

\* every fetch failed and the watchlist has more gainers than top_n, a loser
\* and a symbol in neither
C17_Witness ==
    /\ Computed
    /\ AllFetchesFailed
    /\ Cardinality(Positives) > overview.top_n
    /\ Negatives # {}
    /\ WatchSymbols \ (Positives \cup Negatives) # {}

\* C18: with an empty watchlist and every mover fetch failed the call
\* returns, and the five lists of its result are empty.
C18_NothingInNothingOut ==
    [][(overview.watchlist = <<>> /\ AllFetchesFailed)
          => /\ overview.pc = "sorting"
                  => /\ overview'.pc = "done"
                     /\ overview'.response = EmptySections
             /\ overview'.pc # "failed"
             /\ overview'.pc = "done" => overview'.response = EmptySections]_vars

\* the call returned five empty lists
C18_Witness ==
    /\ Computed
    /\ overview.watchlist = <<>>
    /\ AllFetchesFailed
    /\ overview.response = EmptySections

\* row i is the last of the first top_n rows of the table with its symbol
LastOfSymbol(rows, i) ==
    \A j \in (i + 1)..Len(rows) : upper(rows[j].symbol) # upper(rows[i].symbol)

C20_CachedOnlyWithinTtl ==
    [][\A t \in MoverTypes, fetched \in BOOLEAN :
          GetMarketMovers(t, fetched)
              => (~movers'.last.live
                     <=> /\ movers.cache[t] # NoTime
                         /\ now - movers.cache[t] < 15)]_vars

\* the call goes to the web: the cache is not answered from
LiveFetch(t) ==
    ~( should_use_cached_market_movers(movers, utcnow)
       /\ movers.cache[t] # NoTime )

\* C21: when a live mover fetch fails, get_market_movers returns None and
\* the movers cache is as before the call: the table cached for that
\* category, the tables of the other categories and the cache time.
C21_FailedFetchLeavesCache ==
    [][\A t \in MoverTypes :
          (LiveFetch(t) /\ GetMarketMovers(t, FALSE))
              => /\ movers'.last = [mover_type |-> t, live |-> TRUE,
                                    table |-> NoTime]
                 /\ movers'.cache = movers.cache
                 /\ movers'.cache_time = movers.cache_time]_vars

\* a live fetch just failed for a category whose table, cached more than 15
\* minutes ago, is still in the cache next to another category's table
C21_Witness ==
    /\ movers.last.live
    /\ movers.last.table = NoTime
    /\ movers.last.mover_type \in MoverTypes
    /\ movers.cache[movers.last.mover_type] # NoTime
    /\ now - movers.cache_time >= MOVERS_TTL
    /\ \E t \in MoverTypes \ {movers.last.mover_type} :
          movers.cache[t] # NoTime

\* C22: get_stock_info and get_weekly_performance memoize: an entry a cache
\* holds is neither evicted nor changed by any later step of the process,
\* successive regenerations included, and a call for a symbol whose value
\* is stored returns that value without a call to the quote source.
C22_MemoizedForTheProcess ==
    [][/\ \A k \in StockInfoKeys :
            fetcher.cache[k] # NoInfo => fetcher'.cache[k] = fetcher.cache[k]
       /\ \A k \in WeeklyKeys :
            fetcher.weekly_cache[k] # NoWeekly
                => fetcher'.weekly_cache[k] = fetcher.weekly_cache[k]
       /\ \A s \in QuoteSymbols, a \in SourceAnswers :
            ( fetcher.cache[stock_info_cache_key(s)] # NoInfo
              /\ GetStockInfo(s, a) )
                => /\ fetcher'.last.info = fetcher.cache[stock_info_cache_key(s)]
                   /\ ~fetcher'.last.source
       /\ \A s \in QuoteSymbols, a \in WeeklyAnswers :
            ( fetcher.weekly_cache[<<"weekly:", upper(s)>>] # NoWeekly
              /\ GetWeeklyPerformance(s, a) )
                => /\ fetcher'.last.weekly
                          = fetcher.weekly_cache[<<"weekly:", upper(s)>>]
                   /\ ~fetcher'.last.source]_vars

\* some request for the symbol, in whatever letter case, has stored a value
InfoStoredAnyCase(s) ==
    \E s2 \in QuoteSymbols :
       upper(s2) = upper(s) /\ fetcher.cache[stock_info_cache_key(s2)] # NoInfo
WeeklyStoredAnyCase(s) ==
    \E s2 \in QuoteSymbols :
       /\ upper(s2) = upper(s)
       /\ fetcher.weekly_cache[<<"weekly:", upper(s2)>>] # NoWeekly

\* C23: the quote cache and the weekly cache are keyed by the upper-cased
\* symbol: a request whose symbol differs only in letter case from one that
\* stored a value is a cache hit and makes no call to the quote source.
C23_KeyedByUpperCasedSymbol ==
    [][/\ \A s \in QuoteSymbols, a \in SourceAnswers :
            (InfoStoredAnyCase(s) /\ GetStockInfo(s, a))
                => ~fetcher'.last.source
       /\ \A s \in QuoteSymbols, a \in WeeklyAnswers :
            (WeeklyStoredAnyCase(s) /\ GetWeeklyPerformance(s, a))
                => ~fetcher'.last.source]_vars

\* a str that is empty or holds nothing but whitespace
Blank(s) == \A i \in 1..Len(s) : s[i] = " "

\* C24: the normalizers never raise: every input gives a number or None,
\* and the placeholder "--", the empty string and a whitespace-only string
\* give None, never zero.
C24_NeverRaises ==
    applied.fn # "none"
        => /\ ~applied.raised
           /\ ( /\ applied.value.kind = "str"
                /\ \/ applied.value.str = <<"-", "-">>
                   \/ Blank(applied.value.str) )
                 => applied.result = NoNumber

RECURSIVE digits_of(_)
digits_of(s) ==
    IF s = <<>> THEN <<>>
    ELSE IF Head(s) \in Digits THEN <<Head(s)>> \o digits_of(Tail(s))
    ELSE digits_of(Tail(s))

Unsigned(s) == IF s # <<>> /\ s[1] \in {"+", "-"} THEN Tail(s) ELSE s
SignOf(s) == IF s # <<>> /\ s[1] = "-" THEN 0 - 1 ELSE 1

PointOf(core) ==
    IF \E i \in 1..Len(core) : core[i] = "."
    THEN CHOOSE i \in 1..Len(core) : core[i] = "."
    ELSE Len(core) + 1

\* digits, with thousands separators between digits of the whole part, and
\* optionally a decimal point followed by digits; the whole part may be
\* missing (a leading decimal point)
IsDecimal(core) ==
    /\ Cardinality({ i \in 1..Len(core) : core[i] = "." }) <= 1
    /\ \A i \in 1..Len(core) : core[i] \in Digits \cup {".", ","}
    /\ \A i \in 1..Len(core) :
          core[i] = ","
              => /\ 1 < i /\ i < PointOf(core)
                 /\ core[i - 1] \in Digits
                 /\ i < Len(core) /\ core[i + 1] \in Digits
    /\ PointOf(core) < Len(core) + 1 => PointOf(core) < Len(core)
    /\ \E i \in 1..Len(core) : core[i] \in Digits

\* the value of sign, decimal and power of ten
DecimalValue(sign, core, power) ==
    Number(sign * int_of(digits_of(core)),
           power - (IF PointOf(core) <= Len(core)
                    THEN Len(core) - PointOf(core) ELSE 0))

PowerOf(c) ==
    CASE c = "K" -> 3 [] c = "M" -> 6 [] c = "B" -> 9 [] c = "T" -> 12
      [] OTHER -> 0

\* sign, decimal, and K, M, B or T or nothing
NumberReference(s) ==
    LET u == Unsigned(s)
        suffixed == u # <<>> /\ u[Len(u)] \in {"K", "M", "B", "T"}
        core == IF suffixed THEN SubSeq(u, 1, Len(u) - 1) ELSE u
    IN  [wellformed |-> IsDecimal(core),
         value |-> DecimalValue(SignOf(s), core,
                                IF suffixed THEN PowerOf(u[Len(u)]) ELSE 0)]

\* sign, decimal and "%"
PercentReference(s) ==
    LET u == Unsigned(s)
        core == SubSeq(u, 1, Len(u) - 1)
    IN  [wellformed |-> u # <<>> /\ u[Len(u)] = "%" /\ IsDecimal(core),
         value |-> DecimalValue(SignOf(s), core, 0)]

\* C25: for a well-formed input the normalizer returns the reference value:
\* thousands separators removed, a trailing K/M/B/T multiplying by 10^3,
\* 10^6, 10^9, 10^12, a leading sign and a leading decimal point kept; for
\* a percentage string, the signed decimal number it starts with.
C25_ReferenceValue ==
    /\ ( applied.fn = "number" /\ applied.value.kind = "str"
         /\ NumberReference(applied.value.str).wellformed )
          => /\ ~applied.raised
             /\ applied.result = NumberReference(applied.value.str).value
    /\ ( applied.fn = "percent" /\ applied.value.kind = "str"
         /\ PercentReference(applied.value.str).wellformed )
          => /\ ~applied.raised
             /\ applied.result = PercentReference(applied.value.str).value

\* TRADING_WINDOW and TRADING_DAYS of the process that answered
Window == parse_trading_window(applied.value.window)
Days == parse_trading_days(applied.value.days)

\* the time of day lies within the window
InsideWindow(start, end, t) ==
    IF start <= end THEN start <= t /\ t <= end ELSE t >= start \/ t <= end

\* C26: _within_trading_window is true at every instant when neither a
\* window nor a set of days is configured; otherwise it is false on a
\* weekday outside the days, and else true exactly when the time of day
\* lies within the window (across midnight: t >= start or t <= end).
\* _is_market_open is the same test for Monday-Friday, 09:30-16:00.
C26_IsOpen ==
    /\ applied.fn = "within_trading_window"
          => applied.result =
               ( \/ ~Window.present /\ ~Days.present
                 \/ /\ Days.present => applied.value.weekday \in Days.days
                    /\ Window.present
                          => InsideWindow(Window.start, Window.end,
                                          applied.value.minute) )
    /\ applied.fn = "is_market_open"
          => applied.result =
               ( /\ applied.value.weekday \in 0..4
                 /\ InsideWindow(MARKET_OPEN_MINUTE, MARKET_CLOSE_MINUTE,
                                 applied.value.minute) )

\* 01:59 on a Friday, inside the window 22:00-02:00 of a Monday-Friday set
C26_Witness ==
    /\ applied.fn = "within_trading_window"
    /\ Window = [present |-> TRUE, start |-> 1320, end |-> 120]
    /\ Days = [present |-> TRUE, days |-> 0..4]
    /\ applied.value.weekday = 4
    /\ applied.value.minute = 119
    /\ applied.result

\* C27: a non-forced caller starts a build only when _should_regenerate,
\* evaluated under generation_lock in the step that starts the build, is
\* true; finding it false there it starts none, a persisted report or not.
C27_BuildOnlyIfStaleUnderGuard ==
    [][\A c \in Callers :
          ( /\ calls[c].pc # "building"
            /\ calls'[c].pc = "building"
            /\ ~calls'[c].force )
              => should_regenerate(last_generation_state, calls'[c].period,
                                   utcnow)]_vars

\* C28: after a build for period p completed, last_generation_state holds
\* p and the time of that build: while no other build has started and no
\* more than 15 minutes have passed since the report was stamped,
\* _should_regenerate(p) is false, reads served and a failed save included.
C28_FreshAfterBuild ==
    (built # NoBuilt /\ utcnow - built.at <= 15)
        => ~should_regenerate(last_generation_state, built.period, utcnow)

\* the value an entry is ranked by: a missing one counts as zero
RankedAs(entry, key) == IF entry[key] = None THEN 0 ELSE entry[key]

NonIncreasing(list, key) ==
    \A i \in 1..(Len(list) - 1) :
        RankedAs(list[i], key) >= RankedAs(list[i + 1], key)

NonDecreasing(list, key) ==
    \A i \in 1..(Len(list) - 1) :
        RankedAs(list[i], key) <= RankedAs(list[i + 1], key)

FirstOccurrences(list) ==
    LET kept == { i \in 1..Len(list) :
                    /\ list[i].symbol # ""
                    /\ \A j \in 1..(i - 1) : list[j].symbol # list[i].symbol }
        nth(n) == CHOOSE i \in kept : Cardinality({ j \in kept : j < i }) = n - 1
    IN  [n \in 1..Cardinality(kept) |-> list[nth(n)]]

\* the sorted gainers, losers, active and viewed buckets laid end to end
PriorityBuckets ==
    sort_bucket(overview.market_data_map.gainers, "change_percent", TRUE)
        \o sort_bucket(overview.market_data_map.losers, "change_percent", FALSE)
        \o sort_bucket(overview.market_data_map.active, "volume", TRUE)
        \o sort_bucket(overview.market_data_map.viewed, "volume", TRUE)

WatchlistBucket ==
    sort_bucket(overview.market_data_map.watchlist, "change_percent", TRUE)

\* C30: the all list is the sorted gainers, losers, active and viewed
\* buckets laid end to end in this order, with every symbol kept at its
\* first occurrence only, so that a symbol of several buckets stands where
\* the first of these buckets puts it.
C30_AllIsPriorityMerge ==
    Computed => overview.response.all = FirstOccurrences(PriorityBuckets)

\* C30 as the code has it: the watchlist bucket comes behind the four, and
\* the list is cut to 2*top_n; a reused persisted overview has the stored
\* list.
C30_AllIsPriorityMergeThenWatchlistCut ==
    /\ Computed
           => overview.response.all
                  = head(FirstOccurrences(PriorityBuckets \o WatchlistBucket),
                         2 * overview.top_n)
    /\ (overview.pc = "done" /\ overview.reused)
           => overview.response.all = overview.source_data.market_overview.all

\* a computed all list with a symbol that the gainers and the active bucket
\* both hold, standing where the gainers put it, and with a symbol that only
\* the watchlist holds
C30_Witness ==
    /\ Computed
    /\ \E i \in 1..Len(overview.response.all) :
          /\ overview.response.all[i].symbol
                 \in symbols_of(overview.market_data_map.active)
          /\ i <= Len(overview.response.gainers)
          /\ overview.response.gainers[i].symbol
                 = overview.response.all[i].symbol
          /\ overview.response.all[i] \notin
                 { overview.market_data_map.active[k] :
                     k \in 1..Len(overview.market_data_map.active) }
    /\ \E i \in 1..Len(overview.response.all) :
          overview.response.all[i].symbol
              \notin symbols_of(PriorityBuckets)
    /\ Len(overview.response.all) < Len(FirstOccurrences(PriorityBuckets \o WatchlistBucket))

\* where the input watchlist has a symbol first
FirstIndex(symbol) ==
    CHOOSE i \in 1..Len(overview.watchlist) :
        /\ overview.watchlist[i] = symbol
        /\ \A j \in 1..(i - 1) : overview.watchlist[j] # symbol

\* the entries of a list that satisfy "taken" stand in the order of the
\* input watchlist
InWatchlistOrder(list, taken) ==
    \A i, j \in 1..Len(list) :
        (i < j /\ list[i].symbol \in taken /\ list[j].symbol \in taken)
            => FirstIndex(list[i].symbol) < FirstIndex(list[j].symbol)

\* the watchlist symbols that no mover bucket and no sign routing put in all
FilledIn == WatchSymbols \ symbols_of(PriorityBuckets)

\* the filling stops: the entries filled in from the watchlist bring
\* all to 2*top_n entries at most, and when all stays shorter every watchlist
\* symbol is in it.
BackfillStops ==
    Computed
        => /\ Len(overview.response.all) <= 2 * overview.top_n
           /\ Len(overview.response.all) < 2 * overview.top_n
                  => WatchSymbols \subseteq symbols_of(overview.response.all)

\* C31: when get_market_overview falls back to watchlist entries, to fill
\* all up to 2*top_n entries or to stand in for an empty viewed bucket in
\* most_viewed, these entries are in the order of the input watchlist, and
\* the filling stops at 2*top_n entries or when the watchlist is used up.
C31_FallbackInWatchlistOrder ==
    Computed
        => /\ InWatchlistOrder(overview.response.all, FilledIn)
           /\ overview.market_data_map.viewed = <<>>
                  => InWatchlistOrder(overview.response.most_viewed,
                                      WatchSymbols)
           /\ BackfillStops

\* the callers inside "async with generation_lock", past the line that sets
\* in_progress
Building == { c \in Callers : calls[c].pc = "building" }

\* C32: in every reachable state of the service in_progress is true only
\* while one caller holds generation_lock and is between setting in_progress
\* and leaving the guarded section; whenever the lock is not held,
\* in_progress is false.
C32_InProgressOnlyUnderGuard ==
    /\ InProgress => (generation_lock.locked /\ Cardinality(Building) = 1)
    /\ ~generation_lock.locked => ~InProgress

\* the flag was set and cleared again while a builder thread that a
\* cancelled caller left behind still runs, and the lock is with nobody
C32_Witness ==
    /\ ~generation_lock.locked
    /\ ~InProgress
    /\ Orphans # {}
    /\ returned # NoReturn
    /\ returned.exit \in {129, 309}

Waiting == { c \in Callers : calls[c].pc = "waiting" }

\* C33: provided every builder invocation comes to its end, by returning or
\* by raising, every caller of maybe_generate or of /process returns in the
\* end: generation_lock is released on every way out, so that no caller
\* waits for it for ever, forced or not.
C33_EveryCallerReturns ==
    \A c \in Callers : (calls[c].pc # "idle") ~> (calls[c].pc = "idle")

\* a forced and a non-forced caller wait for the lock while a third builds
C33_Witness ==
    /\ Cardinality(Building) = 1
    /\ Cardinality(Waiting) = 2
    /\ \E c, d \in Waiting : calls[c].force /\ ~calls[d].force

\* C34: in the legacy service in_progress is false again once the build
\* section is left, whichever way: the builder returned, the builder raised,
\* or the waiting request was cancelled while the build ran; it is true only
\* while a caller is in the build section, so it never stays true for ever.
C34_LegacyFlagClearedOnEveryPath ==
    Legacy => (InProgress => Building # {})

C36_ClosedMarketSkipsUnlessCrypto ==
    [][\A c \in Clients, p \in Periods, y \in SymbolInputs :
          (~MarketOpen /\ Stale(p) /\ ProcessPortfolio(c, p, FALSE, y))
              => IF any_endswith_USD(request_symbols(y))
                 THEN /\ calls'[c].pc = "building"
                      /\ jobs'[c].phase = "running"
                      /\ last_generation_state'.in_progress
                 ELSE /\ request_symbols(y) # <<>>
                      /\ returned'.exit = 286
                      /\ calls'[c].pc = "idle"
                      /\ UNCHANGED <<last_generation_state, generation_lock,
                                     jobs, existing_portfolio_data>>]_vars

\* a non-forced request was just answered "skipped": the market is closed,
\* no build is in progress and the recorded report is stale
C36_Witness ==
    /\ returned.exit = 286
    /\ ~returned.force
    /\ ~MarketOpen
    /\ ~InProgress
    /\ \E p \in Periods : Stale(p)
    /\ generation_lock.waiters = <<>>

\* C36 as the code has it: with a symbol that ends in "-USD" the request
\* goes on to the lock; it starts the build in the same step when the lock
\* is free, and queues for it otherwise.
C36_ClosedMarketSkipsUnlessCryptoGoesToLock ==
    [][\A c \in Clients, p \in Periods, y \in SymbolInputs :
          (~MarketOpen /\ Stale(p) /\ ProcessPortfolio(c, p, FALSE, y))
              => IF any_endswith_USD(request_symbols(y))
                 THEN IF lock_is_free(generation_lock)
                      THEN /\ calls'[c].pc = "building"
                           /\ jobs'[c].phase = "running"
                           /\ last_generation_state'.in_progress
                      ELSE /\ calls'[c].pc = "waiting"
                           /\ generation_lock'.waiters
                                  = Append(generation_lock.waiters, c)
                           /\ UNCHANGED <<last_generation_state, jobs>>
                 ELSE /\ request_symbols(y) # <<>>
                      /\ returned'.exit = 286
                      /\ calls'[c].pc = "idle"
                      /\ UNCHANGED <<last_generation_state, generation_lock,
                                     jobs, existing_portfolio_data>>]_vars

\* the Quote that get_stock_info gives for a symbol whose lookup failed
FallbackQuote(s) == [symbol |-> s, current_price |-> None, change_percent |-> 0]

\* C37: a failed quote lookup is cached like a success: get_stock_info
\* stores the fallback Quote (no price, change zero) of the symbol, and every
\* later call for the symbol in the same process returns it with no call to
\* the quote source; a weekly-history fetch that failed stores nothing, and
\* the next call asks the source again.
C37_FailureCachedWeeklyRetried ==
    [][/\ \A s \in QuoteSymbols, a \in SourceAnswers :
            ( /\ fetcher.cache[stock_info_cache_key(s)] = NoInfo
              /\ a.kind = "raise"
              /\ GetStockInfo(s, a) )
                => /\ fetcher'.last.info = FallbackQuote(s)
                   /\ fetcher'.cache[stock_info_cache_key(s)] = FallbackQuote(s)
       /\ \A s \in QuoteSymbols :
            fetcher.cache[stock_info_cache_key(s)] = FallbackQuote(s)
                => fetcher'.cache[stock_info_cache_key(s)] = FallbackQuote(s)
       /\ \A s \in QuoteSymbols, a \in SourceAnswers :
            ( /\ fetcher.cache[stock_info_cache_key(s)] = FallbackQuote(s)
              /\ GetStockInfo(s, a) )
                => /\ fetcher'.last.info = FallbackQuote(s)
                   /\ ~fetcher'.last.source
       /\ \A s \in QuoteSymbols, a \in WeeklyAnswers :
            ( /\ fetcher.weekly_cache[<<"weekly:", upper(s)>>] = NoWeekly
              /\ GetWeeklyPerformance(s, a) )
                => /\ fetcher'.last.source
                   /\ a = NoWeekly
                        => fetcher'.weekly_cache[<<"weekly:", upper(s)>>]
                               = NoWeekly]_vars

=============================================================================
